---- MODULE Spec2Model ----
(***************************************************************************)
(* Model of nan0web/db-browser: the remote fetcher (BrowserDB.fetchRemote), *)
(* the path resolver (utils/resolveSync.js) and the merge engine            *)
(* (DataDB.fetchMerged and its helpers).                                    *)
(*                                                                         *)
(* JavaScript strings are modelled as tuples of one-character strings, so  *)
(* that split, slice, startsWith, endsWith and concatenation are computed  *)
(* character by character, as the code computes them.                      *)
(***************************************************************************)
EXTENDS Integers, Sequences, FiniteSets, TLC

VARIABLES
    fcall,      \* arguments and transport of the fetchRemote call under study
    fresult,    \* what that call settled with ("pending" before it ran)
    mcall,      \* the merge-engine operation under study and its arguments
    mresult,    \* what that operation settled with
    calls,      \* the fetchRemote calls in flight: timer, abort signal, outcome
    rcall,      \* the context and the segments of the resolveSync call under study
    rresult,    \* what that call returned or threw
    sresult,    \* what the string-based fallback gives for the same call
    pipe,       \* the fetchMerged call in progress: its step, its data, its loads
    dcall,      \* the document operation under study and its arguments
    dresult,    \* what that operation settled with
    driver,     \* the BrowserDriver: its store, its caches, its calls in progress
    gen         \* the generator of a readDir call and what it has requested and yielded

vars == <<fcall, fresult, mcall, mresult, calls, rcall, rresult, sresult, pipe, dcall, dresult, driver, gen>>

(***************************************************************************)
(* String primitives of String.prototype                                   *)
(***************************************************************************)
StartsWith(s, p) == Len(s) >= Len(p) /\ SubSeq(s, 1, Len(p)) = p

EndsWith(s, p) == Len(s) >= Len(p) /\ SubSeq(s, Len(s) - Len(p) + 1, Len(s)) = p

\* s.slice(n) and s.substring(n) for 0 <= n
Slice(s, n) == SubSeq(s, n + 1, Len(s))

\* s.split(c) for a one-character separator c: "".split("/") is [""]
RECURSIVE Split(_, _)
Split(s, c) ==
    IF s = <<>> THEN << <<>> >>
    ELSE LET rest == Split(Tail(s), c) IN
         IF Head(s) = c THEN << <<>> >> \o rest
         ELSE << <<Head(s)>> \o Head(rest) >> \o Tail(rest)

\* parts.join(c)
RECURSIVE Join(_, _)
Join(parts, c) ==
    IF parts = <<>> THEN <<>>
    ELSE IF Len(parts) = 1 THEN Head(parts)
    ELSE Head(parts) \o <<c>> \o Join(Tail(parts), c)

\* parts.filter(p => p !== "")
RECURSIVE FilterNonEmpty(_)
FilterNonEmpty(parts) ==
    IF parts = <<>> THEN <<>>
    ELSE IF Head(parts) = <<>> THEN FilterNonEmpty(Tail(parts))
    ELSE <<Head(parts)>> \o FilterNonEmpty(Tail(parts))

(***************************************************************************)
(* Program constants                                                       *)
(***************************************************************************)
DATA_EXTNAMES ==
    << <<".", "j", "s", "o", "n">>,
       <<".", "j", "s", "o", "n", "l">>,
       <<".", "c", "s", "v">>,
       <<".", "y", "a", "m", "l">>,
       <<".", "y", "m", "l">>,
       <<".", "n", "a", "n", "o">> >>

\* this.cwd + "/" for host "http://localhost" and root "/"
BaseHref == <<"h", "t", "t", "p", ":", "/", "/", "l", "o", "c", "a", "l", "h", "o", "s", "t", "/">>

AppJson == <<"a", "p", "p", "l", "i", "c", "a", "t", "i", "o", "n", "/", "j", "s", "o", "n">>
TextHtml == <<"t", "e", "x", "t", "/", "h", "t", "m", "l">>

(***************************************************************************)
(* DB.extname: "." plus what follows the last "." of the URI, "" if none   *)
(***************************************************************************)
extname(uri) ==
    LET arr == Split(uri, ".") IN
    IF Len(arr) > 1 THEN <<".">> \o arr[Len(arr)] ELSE <<>>

(***************************************************************************)
(* new URL(uri, url).href for the URIs of the model: relative names with   *)
(* no scheme and no dot segments, for which URL resolution against the     *)
(* base "http://localhost/" is concatenation.                              *)
(***************************************************************************)
Href(uri) == BaseHref \o uri

(***************************************************************************)
(* JavaScript values.  An object or an array is a map from property names  *)
(* to values; the elements of an array are its properties "0", "1", ...    *)
(***************************************************************************)
Num(n) == [t |-> "num", v |-> n]
Str(s) == [t |-> "str", v |-> s]
Null == [t |-> "null", v |-> 0]
Undefined == [t |-> "undefined", v |-> 0]
Obj(f) == [t |-> "obj", v |-> f]

IndexName == <<"0", "1", "2", "3">>
IndexOf(k) == CHOOSE i \in 1..Len(IndexName) : IndexName[i] = k
IndexNames == {IndexName[i] : i \in 1..Len(IndexName)}

Arr(elems) ==
    [t |-> "arr",
     v |-> [k \in {IndexName[i] : i \in 1..Len(elems)} |-> elems[IndexOf(k)]]]

NoProps == [k \in {} |-> Null]
Prop(k, x) == [j \in {k} |-> x]

\* typeof x === 'object' && x !== null
IsObject(x) == x.t \in {"obj", "arr"}

(***************************************************************************)
(* Transport outcomes.  A transport is a function from href to the outcome *)
(* of this.fetchFn(href, init): a response or a rejection.                 *)
(***************************************************************************)
IsOk(status) == status >= 200 /\ status <= 299

Response(href, out) ==
    [href |-> href, status |-> out.status, ok |-> IsOk(out.status),
     headers |-> out.headers, body |-> out.body]

NoHeaders == [n \in {} |-> <<>>]
Header(name, value) == [n \in {name} |-> value]

ResolvesWith(status, headers, body) ==
    [kind |-> "resolve", status |-> status, headers |-> headers, body |-> body]
Resolves(status, headers) == ResolvesWith(status, headers, Undefined)

\* this.fetchFn(href, init): a transport answers 404 for what it does not serve
fetchFn(T, href) ==
    IF href \in DOMAIN T THEN T[href] ELSE Resolves(404, NoHeaders)
Rejects(name) == [kind |-> "reject", name |-> name]

\* new HTTPError('Request timeout', 408); origin is the href of the transport
\* call that raised an error, empty for an error fetchRemote creates
HTTPError408 == [name |-> "HTTPError", status |-> 408, origin |-> <<>>]
TransportError(href, name) == [name |-> name, status |-> 0, origin |-> href]

\* lines 175-181: what the catch block throws for a caught error
Caught(err) == IF err.name = "AbortError" THEN HTTPError408 ELSE err

(***************************************************************************)
(* BrowserDB.fetchRemote                                                   *)
(***************************************************************************)
\* lines 155-162: does the declared content type match no data extension?
ContentTypeCheck(headers) ==
    IF "content-type" \in DOMAIN headers
    THEN LET contentExt == Split(headers["content-type"], "/")[2] IN
         \A i \in 1..Len(DATA_EXTNAMES) :
            ~EndsWith(DATA_EXTNAMES[i], <<"/">> \o Slice(contentExt, 1))
    ELSE FALSE

Pending == [kind |-> "pending"]
Value(x) == [kind |-> "value", value |-> x]

Returned(response, log, visited) ==
    [kind |-> "response", response |-> response, log |-> log, visited |-> visited]

Thrown(err, log, visited) ==
    [kind |-> "throw", err |-> err, log |-> log, visited |-> visited]

RECURSIVE fetchRemote(_, _, _)
RECURSIVE extLoop(_, _, _, _, _, _)

RECURSIVE extLoopKeepsFirst(_, _, _, _, _, _)
RECURSIVE extLoopNoBreak(_, _, _, _, _, _)

\* the loop, had it not stored the response of each retry
extLoopKeepsFirst(uri, visited, T, i, response, log) ==
    IF i > Len(DATA_EXTNAMES) THEN Returned(response, log, visited)
    ELSE LET r == fetchRemote(uri \o DATA_EXTNAMES[i], visited, T) IN
         IF r.kind = "throw"
         THEN Thrown(Caught(r.err), log \o r.log, r.visited)
         ELSE IF r.response.ok
              THEN Returned(r.response, log \o r.log, r.visited)
              ELSE extLoopKeepsFirst(uri, r.visited, T, i + 1, response, log \o r.log)

\* the loop, had it not stopped at the first ok response
extLoopNoBreak(uri, visited, T, i, response, log) ==
    IF i > Len(DATA_EXTNAMES) THEN Returned(response, log, visited)
    ELSE LET r == fetchRemote(uri \o DATA_EXTNAMES[i], visited, T) IN
         IF r.kind = "throw"
         THEN Thrown(Caught(r.err), log \o r.log, r.visited)
         ELSE extLoopNoBreak(uri, r.visited, T, i + 1, r.response, log \o r.log)

\* lines 166-172: the loop over DATA_EXTNAMES, from extension number i on
extLoop(uri, visited, T, i, response, log) ==
    IF i > Len(DATA_EXTNAMES) THEN Returned(response, log, visited)
    ELSE LET r == fetchRemote(uri \o DATA_EXTNAMES[i], visited, T) IN
         IF r.kind = "throw"
         THEN Thrown(Caught(r.err), log \o r.log, r.visited)
         ELSE IF r.response.ok
              THEN Returned(r.response, log \o r.log, r.visited)
              ELSE extLoop(uri, r.visited, T, i + 1, r.response, log \o r.log)

\* lines 137-186; T[href] is the outcome of the awaited this.fetchFn(href, init)
fetchRemote(uri, visited, T) ==
    LET href == Href(uri)
        out == fetchFn(T, href)
    IN  IF out.kind = "reject"
        THEN Thrown(Caught(TransportError(href, out.name)), <<href>>, visited)
        ELSE LET response == Response(href, out)
                 check == ContentTypeCheck(response.headers)
                 notFound == response.status = 404 /\ href \notin visited
             IN  IF (check \/ notFound) /\ extname(uri) = <<>>
                 THEN extLoop(uri, visited \cup {href}, T, 1, response, <<href>>)
                 ELSE Returned(response, <<href>>, visited)

(***************************************************************************)
(* The deadline of fetchRemote (lines 143-154 and 175-181), for calls on a *)
(* URI with an explicit extension, whose response is returned as it is.    *)
(* A transport either honours the abort signal, rejecting with an          *)
(* AbortError once the signal is aborted, or ignores it and settles        *)
(* whenever it settles, if ever.                                           *)
(***************************************************************************)
NCalls == 2
Calls == 1..NCalls

Statuses == {200, 404, 500}

\* the names of the errors a transport rejects with (err.name, line 177)
ErrorNames == {"Error", "AbortError"}

\* no error caught yet
NoError == [name |-> "", status |-> 0, origin |-> <<>>]

\* raised is the error the awaited fetchFn rejected with (err of line 175)
IdleCall ==
    [pc |-> "idle", timer |-> "unset", aborted |-> FALSE, honours |-> FALSE,
     raised |-> NoError, outcome |-> Pending]

\* clearTimeout(timeoutId)
clearTimeout(timer) == IF timer = "armed" THEN "cleared" ELSE timer

\* lines 144-150: the controller and the timer are created, fetchFn is called
StartCall(i, h) ==
    /\ calls[i].pc = "idle"
    /\ calls' = [calls EXCEPT ![i] =
                    [pc |-> "awaiting", timer |-> "armed", aborted |-> FALSE,
                     honours |-> h, raised |-> NoError, outcome |-> Pending]]
    /\ UNCHANGED <<fcall, fresult, mcall, mresult, rcall, rresult, sresult, pipe, dcall, dresult, driver, gen>>

\* the timer callback, had the calls of the instance shared one controller
TimerFiresSharedController(i) ==
    /\ calls[i].timer = "armed"
    /\ calls' = [j \in Calls |->
                    IF j = i THEN [calls[j] EXCEPT !.timer = "fired", !.aborted = TRUE]
                    ELSE [calls[j] EXCEPT !.aborted = TRUE]]
    /\ UNCHANGED <<fcall, fresult, mcall, mresult, rcall, rresult, sresult, pipe, dcall, dresult, driver, gen>>

\* lines 145-147: the timer callback runs controller.abort()
TimerFires(i) ==
    /\ calls[i].timer = "armed"
    /\ calls' = [calls EXCEPT ![i].timer = "fired", ![i].aborted = TRUE]
    /\ UNCHANGED <<fcall, fresult, mcall, mresult, rcall, rresult, sresult, pipe, dcall, dresult, driver, gen>>

\* lines 150-154, 174: the transport resolves and the response is returned
TransportResolves(i, status) ==
    /\ calls[i].pc = "awaiting"
    /\ ~(calls[i].aborted /\ calls[i].honours)
    /\ calls' = [calls EXCEPT ![i].pc = "settled",
                              ![i].timer = clearTimeout(calls[i].timer),
                              ![i].outcome = [kind |-> "response", status |-> status]]
    /\ UNCHANGED <<fcall, fresult, mcall, mresult, rcall, rresult, sresult, pipe, dcall, dresult, driver, gen>>

\* lines 175-181: the transport rejects with an error of its own, whatever
\* its name
TransportRejects(i, name) ==
    /\ calls[i].pc = "awaiting"
    /\ ~(calls[i].aborted /\ calls[i].honours)
    /\ calls' = [calls EXCEPT ![i].pc = "settled",
                              ![i].timer = clearTimeout(calls[i].timer),
                              ![i].raised = TransportError(<<>>, name),
                              ![i].outcome = [kind |-> "throw",
                                              err |-> Caught(TransportError(<<>>, name))]]
    /\ UNCHANGED <<fcall, fresult, mcall, mresult, rcall, rresult, sresult, pipe, dcall, dresult, driver, gen>>

\* lines 175-181: a transport that honours the aborted signal rejects with
\* an AbortError
TransportAborts(i) ==
    /\ calls[i].pc = "awaiting"
    /\ calls[i].aborted /\ calls[i].honours
    /\ calls' = [calls EXCEPT ![i].pc = "settled",
                              ![i].timer = clearTimeout(calls[i].timer),
                              ![i].raised = TransportError(<<>>, "AbortError"),
                              ![i].outcome = [kind |-> "throw",
                                              err |-> Caught(TransportError(<<>>, "AbortError"))]]
    /\ UNCHANGED <<fcall, fresult, mcall, mresult, rcall, rresult, sresult, pipe, dcall, dresult, driver, gen>>

TimeoutInit ==
    /\ calls = [i \in Calls |-> IdleCall]
    /\ fcall = Pending
    /\ fresult = Pending
    /\ mcall = Pending
    /\ mresult = Pending
    /\ rcall = Pending
    /\ rresult = Pending
    /\ sresult = Pending
    /\ dcall = Pending
    /\ dresult = Pending
    /\ driver = Pending
    /\ gen = Pending
    /\ pipe = Pending

TimeoutNext ==
    \E i \in Calls :
        \/ \E h \in BOOLEAN : StartCall(i, h)
        \/ TimerFires(i)
        \/ \E status \in Statuses : TransportResolves(i, status)
        \/ \E name \in ErrorNames : TransportRejects(i, name)
        \/ TransportAborts(i)

TimeoutSpec == TimeoutInit /\ [][TimeoutNext]_vars

(***************************************************************************)
(* The transport calls of the document verbs and their deadline.           *)
(* loadDocument, writeDocument and dropDocument call fetchRemote, which    *)
(* arms a timer and passes the signal; saveDocument and statDocument call  *)
(* this.fetchFn themselves, with no timer and no signal.  The transport    *)
(* honours a signal it is given, as fetch does, and may never answer of    *)
(* itself.  A timer that is armed fires unless it is cleared, and a        *)
(* transport whose signal is aborted rejects.                              *)
(***************************************************************************)
\* BrowserDB.saveDocument line 242, DBBrowser.statDocument: this.fetchFn is
\* called with the method only
StartDirectCall(i) ==
    /\ calls[i].pc = "idle"
    /\ calls' = [calls EXCEPT ![i] =
                    [pc |-> "awaiting", timer |-> "unset", aborted |-> FALSE,
                     honours |-> FALSE, raised |-> NoError, outcome |-> Pending]]
    /\ UNCHANGED <<fcall, fresult, mcall, mresult, rcall, rresult, sresult, pipe, dcall, dresult, driver, gen>>

VerbNext ==
    \E i \in Calls :
        \/ StartCall(i, TRUE)
        \/ StartDirectCall(i)
        \/ TimerFires(i)
        \/ \E status \in Statuses : TransportResolves(i, status)
        \/ \E name \in ErrorNames : TransportRejects(i, name)
        \/ TransportAborts(i)

VerbSpec ==
    /\ TimeoutInit
    /\ [][VerbNext]_vars
    /\ \A i \in Calls : WF_vars(TimerFires(i)) /\ WF_vars(TransportAborts(i))

(***************************************************************************)
(* The URL class, for URLs of the schemes http and https written with      *)
(* letters, "/", ".", "?", "#" and "&": no port, no credentials and no     *)
(* character that the URL parser percent-encodes in a path.  A URL is its  *)
(* origin, its pathname, its query with the leading "?" and its fragment   *)
(* with the leading "#" (both empty when absent).                          *)
(***************************************************************************)
HttpScheme == <<"h", "t", "t", "p", ":", "/", "/">>
HttpsScheme == <<"h", "t", "t", "p", "s", ":", "/", "/">>

\* the position of the first character of s that is in C, Len(s) + 1 if none
First(s, C) ==
    IF \E i \in 1..Len(s) : s[i] \in C
    THEN CHOOSE i \in 1..Len(s) : s[i] \in C /\ \A j \in 1..(i - 1) : s[j] \notin C
    ELSE Len(s) + 1

\* s up to its first character in C, s from that character on, s after it
Before(s, C) == SubSeq(s, 1, First(s, C) - 1)
From(s, C) == SubSeq(s, First(s, C), Len(s))
After(s, C) == SubSeq(s, First(s, C) + 1, Len(s))

\* removal of "." and ".." segments by the URL path parser
RECURSIVE RemoveDots(_, _)
RemoveDots(segs, out) ==
    IF segs = <<>> THEN out
    ELSE LET seg == Head(segs)
             trailing == IF Len(segs) = 1 THEN << <<>> >> ELSE <<>>
         IN  IF seg = <<".", ".">>
             THEN RemoveDots(Tail(segs),
                             (IF out = <<>> THEN out ELSE SubSeq(out, 1, Len(out) - 1))
                                \o trailing)
             ELSE IF seg = <<".">>
             THEN RemoveDots(Tail(segs), out \o trailing)
             ELSE RemoveDots(Tail(segs), Append(out, seg))

\* the pathname of a special URL for a path that is empty or starts with "/"
NormalizePath(p) ==
    IF p = <<>> THEN <<"/">>
    ELSE <<"/">> \o Join(RemoveDots(Split(Slice(p, 1), "/"), <<>>), "/")

\* path, query and fragment of what follows the authority
UrlParts(s) ==
    LET beforeFragment == Before(s, {"#"}) IN
    [path |-> Before(beforeFragment, {"?"}),
     query |-> From(beforeFragment, {"?"}),
     fragment |-> From(s, {"#"})]

\* new URL(s) for s starting with "http://" or "https://"
ParseUrl(s) ==
    LET scheme == IF StartsWith(s, HttpsScheme) THEN HttpsScheme ELSE HttpScheme
        rest == Slice(s, Len(scheme))
        parts == UrlParts(From(rest, {"/", "?", "#"}))
    IN  [origin |-> scheme \o Before(rest, {"/", "?", "#"}),
         pathname |-> NormalizePath(parts.path),
         query |-> parts.query,
         fragment |-> parts.fragment]

\* new URL(rel, base) for a rel with no scheme, base being a parsed URL
ParseRelative(rel, base) ==
    LET parts == UrlParts(rel)
        dir == SubSeq(base.pathname, 1,
                      CHOOSE i \in 1..Len(base.pathname) :
                          /\ base.pathname[i] = "/"
                          /\ \A j \in (i + 1)..Len(base.pathname) : base.pathname[j] # "/")
    IN  IF parts.path = <<>>
        THEN [origin |-> base.origin, pathname |-> base.pathname,
              query |-> IF parts.query # <<>> THEN parts.query ELSE base.query,
              fragment |-> parts.fragment]
        ELSE [origin |-> base.origin,
              pathname |-> IF Head(parts.path) = "/" THEN NormalizePath(parts.path)
                           ELSE NormalizePath(dir \o parts.path),
              query |-> parts.query,
              fragment |-> parts.fragment]

\* url.search and url.hash are empty for an empty query or fragment
UrlSearch(url) == IF Len(url.query) <= 1 THEN <<>> ELSE url.query
UrlHash(url) == IF Len(url.fragment) <= 1 THEN <<>> ELSE url.fragment
UrlHref(url) == url.origin \o url.pathname \o url.query \o url.fragment

\* the query the search setter stores: "#" is percent-encoded
RECURSIVE EncodeQuery(_)
EncodeQuery(q) ==
    IF q = <<>> THEN <<>>
    ELSE (IF Head(q) = "#" THEN <<"%", "2", "3">> ELSE <<Head(q)>>) \o EncodeQuery(Tail(q))

\* url.search = value and url.hash = value
SetSearch(value) ==
    IF value = <<>> THEN <<>>
    ELSE <<"?">> \o EncodeQuery(IF Head(value) = "?" THEN Tail(value) ELSE value)
SetHash(value) ==
    IF value = <<>> THEN <<>>
    ELSE <<"#">> \o (IF Head(value) = "#" THEN Tail(value) ELSE value)

(***************************************************************************)
(* utils/resolveSync.js                                                    *)
(***************************************************************************)
\* isRemote (lines 107-109)
isRemote(uri) == StartsWith(uri, HttpScheme) \/ StartsWith(uri, HttpsScheme)

\* lines 54-60: the index (from 0) of the right-most segment that is absolute
\* or remote, -1 if there is none
CutUntil(validArgs) ==
    LET absolute == {i \in 1..Len(validArgs) :
                        StartsWith(validArgs[i], <<"/">>) \/ isRemote(validArgs[i])}
    IN  IF absolute = {} THEN -1
        ELSE (CHOOSE i \in absolute : \A j \in absolute : j <= i) - 1

\* lines 70-80: an absolute joined path is set on the URL of the origin
AbsoluteUrl(joinedPath, base) ==
    LET path0 == Before(joinedPath, {"?"})
        search == After(joinedPath, {"?"})
        path1 == Before(path0, {"&"})
        varz == After(path0, {"&"})
        path == Before(path1, {"#"})
        hash == After(path1, {"#"})
    IN  [origin |-> ParseUrl(base).origin,
         pathname |-> NormalizePath(path),
         query |-> SetSearch(search \o varz),
         fragment |-> SetHash(hash)]

\* a segment that is null or undefined
Nullish == <<"null">>

\* lines 15 and 122: args.filter(arg => arg != null)
FilterNullish(args) == SelectSeq(args, LAMBDA arg : arg # Nullish)

\* the TypeError of undefined.startsWith, raised by isRemote(validArgs[0])
\* when validArgs is empty
TypeError == [kind |-> "throw", name |-> "TypeError"]

\* lines 136-169 of resolveSyncSimple: the loop over the parts; done is TRUE
\* when a remote part made the function return at once
RECURSIVE simpleLoop(_, _, _)
simpleLoop(context, parts, result) ==
    IF parts = <<>> THEN [done |-> FALSE, result |-> result]
    ELSE LET part == Head(parts)
             root == context.root
             rootNormalized == IF EndsWith(root, <<"/">>) THEN root ELSE root \o <<"/">>
         IN  IF part = <<>> \/ part = <<".">>
             THEN simpleLoop(context, Tail(parts), result)
             ELSE IF isRemote(part) THEN [done |-> TRUE, result |-> part]
             ELSE IF StartsWith(part, <<"/">>)
             THEN simpleLoop(context, Tail(parts), part)
             ELSE IF part = <<".", ".">>
             THEN LET below == FilterNonEmpty(Split(Slice(result, Len(rootNormalized)), "/"))
                      popped == rootNormalized
                                  \o Join(SubSeq(below, 1, Len(below) - 1), "/")
                      up == IF popped # root /\ ~EndsWith(popped, <<"/">>)
                            THEN popped \o <<"/">> ELSE popped
                  IN  simpleLoop(context, Tail(parts),
                                 IF Len(below) > 0 THEN up ELSE result)
             ELSE simpleLoop(context, Tail(parts),
                             (IF EndsWith(result, <<"/">>) THEN result
                              ELSE result \o <<"/">>) \o part)

\* resolveSyncSimple (lines 117-183)
resolveSyncSimple(context, args) ==
    IF Len(args) = 0 THEN Value(context.root)
    ELSE LET validArgs == FilterNullish(args) IN
    IF Len(validArgs) = 1 /\ validArgs[1] = <<>> THEN Value(context.root)
    ELSE IF validArgs = <<>> THEN TypeError
    ELSE IF isRemote(validArgs[1]) THEN Value(validArgs[1])
    ELSE
    LET loop == simpleLoop(context, validArgs, context.root)
        lastArg == validArgs[Len(validArgs)]
        tail == From(lastArg, {"?", "#"})
        query == Before(tail, {"#"})
        hash == From(lastArg, {"#"})
        pathPart == Before(loop.result, {"?", "#"})
    IN  IF loop.done THEN Value(loop.result)
        ELSE IF tail # <<>> THEN Value(pathPart \o query \o hash)
        ELSE Value(loop.result)

\* the result, had the origin been kept for every URL
WithoutOriginKeepsHref(url, base) == UrlHref(url)

\* lines 86-94: a URL under the href of the base is returned without origin
WithoutOrigin(url, base) ==
    IF StartsWith(UrlHref(url), UrlHref(ParseUrl(base)))
    THEN url.pathname \o UrlSearch(url) \o UrlHash(url)
    ELSE UrlHref(url)

\* resolveSync (lines 7-100) for segments that are null, undefined or strings
\* that parse as URLs; with no valid segment, isRemote(undefined) raises a
\* TypeError inside the try block and the catch block runs the fallback
RECURSIVE resolveSync(_, _)
resolveSync(context, args) ==
    IF Len(args) = 0 THEN Value(context.root)
    ELSE LET validArgs == FilterNullish(args) IN
    IF Len(validArgs) = 1 /\ validArgs[1] = <<>> THEN Value(context.root)
    ELSE IF validArgs = <<>> THEN resolveSyncSimple(context, args)
    ELSE
    LET base == context.cwd
        root == IF EndsWith(context.root, <<"/">>) THEN context.root
                ELSE context.root \o <<"/">>
    IN  IF isRemote(validArgs[1])
        THEN LET url == ParseUrl(validArgs[1]) IN
             IF url.origin = ParseUrl(base).origin
             THEN IF Len(validArgs) > 1
                  THEN resolveSync([context EXCEPT !.root = url.pathname], Tail(validArgs))
                  ELSE Value(url.pathname \o UrlSearch(url) \o UrlHash(url))
             ELSE Value(UrlHref(url))
        ELSE
        LET baseUrl == ParseRelative(root, ParseUrl(base))
            cutUntil == CutUntil(validArgs)
            cutArgs == IF cutUntil > 0 THEN SubSeq(validArgs, cutUntil + 1, Len(validArgs))
                       ELSE validArgs
            pathSegments == FilterNonEmpty(Split(Join(cutArgs, "/"), "/"))
            joined == Join(pathSegments, "/")
            joinedPath == IF cutUntil > -1 THEN <<"/">> \o joined ELSE joined
            url == IF StartsWith(joinedPath, <<"/">>)
                   THEN AbsoluteUrl(joinedPath, base)
                   ELSE ParseRelative(joinedPath, baseUrl)
        IN  Value(WithoutOrigin(url, base))

(***************************************************************************)
(* Inputs of the resolver specification                                    *)
(***************************************************************************)
MaxArgs == 2

Localhost == <<"h", "t", "t", "p", ":", "/", "/", "l", "o", "c", "a", "l", "h", "o", "s", "t">>
OtherUrl == <<"h", "t", "t", "p", ":", "/", "/", "o", "t", "h", "e", "r", ".", "e", "x", "a", "m", "p", "l", "e", "/", "x">>
SecondUrl == <<"h", "t", "t", "p", "s", ":", "/", "/", "b", ".", "e", "x", "a", "m", "p", "l", "e", "/", "y">>
SameOriginUrl == <<"h", "t", "t", "p", ":", "/", "/", "l", "o", "c", "a", "l", "h", "o", "s", "t", "/", "a", "p", "i", "/">>

Segments ==
    { <<>>, <<"a">>, <<"/", "b">>, <<".", ".", "/", "c">>, <<".", "/", "d", "/">>, <<"e", "?", "q", "#", "h">>, <<"f", ".", "j", "s", "o", "n">>,
      <<".", ".">>, Nullish, SameOriginUrl, OtherUrl, SecondUrl }

Contexts == [cwd : {Localhost}, root : {<<"/">>, <<"/", "a", "p", "p", "/">>}]

ResolveCalls ==
    [context : Contexts, args : UNION {[1..n -> Segments] : n \in 0..MaxArgs}]

ResolveInit ==
    /\ rcall \in ResolveCalls
    /\ rresult = Pending
    /\ sresult = Pending
    /\ dcall = Pending
    /\ dresult = Pending
    /\ driver = Pending
    /\ gen = Pending
    /\ pipe = Pending
    /\ fcall = Pending
    /\ fresult = Pending
    /\ mcall = Pending
    /\ mresult = Pending
    /\ calls = [i \in Calls |-> IdleCall]

\* one call of resolveSync(context, ...args)
ResolveSync ==
    /\ rresult.kind = "pending"
    /\ rresult' = resolveSync(rcall.context, rcall.args)
    /\ UNCHANGED <<fcall, fresult, mcall, mresult, calls, rcall, sresult, pipe, dcall, dresult, driver, gen>>

\* the catch block of lines 95-99: resolveSyncSimple(context, ...args)
ResolveSyncSimple ==
    /\ sresult.kind = "pending"
    /\ sresult' = resolveSyncSimple(rcall.context, rcall.args)
    /\ UNCHANGED <<fcall, fresult, mcall, mresult, calls, rcall, rresult, pipe, dcall, dresult, driver, gen>>

\* the index of the right-most segment that starts with "/", 0 if none
RightMostAbsolute(args) ==
    LET absolute == {i \in 1..Len(args) : args[i] # Nullish /\ StartsWith(args[i], <<"/">>)}
    IN  IF absolute = {} THEN 0
        ELSE CHOOSE i \in absolute : \A j \in absolute : j <= i

\* the caller resolves the result of the call once more in the same context
ResolveAgain ==
    /\ rresult.kind = "value"
    /\ StartsWith(rresult.value, <<"/">>)
    /\ rcall.args # <<rresult.value>>
    /\ rcall' = [rcall EXCEPT !.args = <<rresult.value>>]
    /\ rresult' = resolveSync(rcall.context, <<rresult.value>>)
    /\ sresult' = Pending
    /\ UNCHANGED <<fcall, fresult, mcall, mresult, calls, pipe, dcall, dresult, driver, gen>>

\* the caller resolves again without the segments that precede the
\* right-most segment starting with "/"
ResolveFromAbsolute ==
    /\ rresult.kind # "pending"
    /\ RightMostAbsolute(rcall.args) > 1
    /\ LET rest == SubSeq(rcall.args, RightMostAbsolute(rcall.args), Len(rcall.args)) IN
        /\ rcall' = [rcall EXCEPT !.args = rest]
        /\ rresult' = resolveSync(rcall.context, rest)
    /\ sresult' = Pending
    /\ UNCHANGED <<fcall, fresult, mcall, mresult, calls, pipe, dcall, dresult, driver, gen>>

ResolveNext ==
    \/ ResolveSync
    \/ ResolveSyncSimple
    \/ ResolveAgain
    \/ ResolveFromAbsolute

ResolveSpec == ResolveInit /\ [][ResolveNext]_vars

(***************************************************************************)
(* Inputs of the fetchRemote specification                                 *)
(***************************************************************************)
DataUri == <<"d", "a", "t", "a">>

ExtUris == {DataUri \o DATA_EXTNAMES[i] : i \in 1..Len(DATA_EXTNAMES)}

FetchUris == {DataUri, DataUri \o DATA_EXTNAMES[1]}

FirstOutcomes ==
    { Resolves(200, Header("content-type", AppJson)),
      Resolves(200, Header("Content-Type", AppJson)),
      Resolves(200, Header("content-type", TextHtml)),
      Resolves(200, NoHeaders),
      Resolves(404, NoHeaders),
      Resolves(404, Header("content-type", AppJson)),
      Resolves(500, NoHeaders),
      Rejects("Error"),
      Rejects("AbortError") }

ExtOutcomes ==
    { Resolves(200, Header("content-type", AppJson)),
      Resolves(404, NoHeaders),
      Resolves(500, Header("content-type", TextHtml)),
      Rejects("Error") }

\* the hrefs a call for DataUri can reach
FetchHrefs == {Href(DataUri)} \cup {Href(u) : u \in ExtUris}

Transports ==
    { [h \in FetchHrefs |-> IF h = Href(DataUri) THEN first ELSE exts[h]] :
      first \in FirstOutcomes,
      exts \in [{Href(u) : u \in ExtUris} -> ExtOutcomes] }

\* a call for a URI with an explicit extension reaches one href only
SingleTransports ==
    { [h \in FetchHrefs |-> IF h = Href(DataUri \o DATA_EXTNAMES[1]) THEN o
                            ELSE Resolves(404, NoHeaders)] :
      o \in FirstOutcomes }

VisitedInputs == {{}, {Href(DataUri)}}

FetchCalls ==
    [uri : {DataUri}, visited : VisitedInputs, T : Transports]
    \cup [uri : {DataUri \o DATA_EXTNAMES[1]}, visited : VisitedInputs, T : SingleTransports]

FetchInit ==
    /\ fcall \in FetchCalls
    /\ fresult = Pending
    /\ mcall = Pending
    /\ mresult = Pending
    /\ calls = [i \in Calls |-> IdleCall]
    /\ rcall = Pending
    /\ rresult = Pending
    /\ sresult = Pending
    /\ dcall = Pending
    /\ dresult = Pending
    /\ driver = Pending
    /\ gen = Pending
    /\ pipe = Pending

\* one call of fetchRemote(uri, requestInit, visited), run to its settlement
FetchRemote ==
    /\ fresult.kind = "pending"
    /\ fresult' = fetchRemote(fcall.uri, fcall.visited, fcall.T)
    /\ UNCHANGED <<fcall, mcall, mresult, calls, rcall, rresult, sresult, pipe, dcall, dresult, driver, gen>>


(***************************************************************************)
(* BrowserDB.loadDocument: the parsed body of an ok response, defaultValue *)
(* for a non-ok response; a rejection of fetchRemote is not caught.        *)
(***************************************************************************)
loadDocument(uri, defaultValue, T) ==
    LET r == fetchRemote(uri, {}, T) IN
    IF r.kind = "throw" THEN [kind |-> "throw", err |-> r.err]
    ELSE IF ~r.response.ok THEN Value(defaultValue)
    ELSE Value(r.response.body)

(***************************************************************************)
(* DataDB                                                                  *)
(***************************************************************************)
\* the documented default of this.extension
extension == <<".", "j", "s", "o", "n">>

DotJson == <<".", "j", "s", "o", "n">>
RefPrefix == <<"$", "r", "e", "f", ":">>

\* DataDB.mergeObjects
RECURSIVE mergeObjects(_, _)
mergeObjects(target, source) ==
    IF ~IsObject(target) \/ ~IsObject(source) THEN source
    ELSE [t |-> target.t,
          v |-> [key \in DOMAIN target.v \cup DOMAIN source.v |->
                  IF key \in DOMAIN source.v
                  THEN IF /\ IsObject(source.v[key])
                          /\ key \in DOMAIN target.v
                          /\ IsObject(target.v[key])
                       THEN mergeObjects(target.v[key], source.v[key])
                       ELSE source.v[key]
                  ELSE target.v[key]]]

\* [...data] for an array, {...data} for an object
Spread(data) ==
    IF data.t = "arr"
    THEN [k \in DOMAIN data.v \cap IndexNames |-> data.v[k]]
    ELSE data.v

\* resolveReferences, had it scanned the loaded target for references too
RECURSIVE resolveReferencesRescans(_, _)
resolveReferencesRescans(data, T) ==
    IF ~IsObject(data) THEN data
    ELSE LET resolvedData == Spread(data) IN
         [t |-> data.t,
          v |-> [key \in DOMAIN resolvedData |->
                  LET value == resolvedData[key] IN
                  IF value.t = "str" /\ StartsWith(value.v, RefPrefix)
                  THEN LET refPath == Slice(value.v, 5)
                           loaded == loadDocument(refPath, Undefined, T)
                       IN  IF loaded.kind = "throw" THEN value
                           ELSE resolveReferencesRescans(loaded.value, T)
                  ELSE IF IsObject(value) THEN resolveReferencesRescans(value, T)
                  ELSE value]]

\* DataDB.resolveReferences
RECURSIVE resolveReferences(_, _)
resolveReferences(data, T) ==
    IF ~IsObject(data) THEN data
    ELSE LET resolvedData == Spread(data) IN
         [t |-> data.t,
          v |-> [key \in DOMAIN resolvedData |->
                  LET value == resolvedData[key] IN
                  IF value.t = "str" /\ StartsWith(value.v, RefPrefix)
                  THEN LET refPath == Slice(value.v, 5)
                           loaded == loadDocument(refPath, Undefined, T)
                       IN  IF loaded.kind = "throw" THEN value ELSE loaded.value
                  ELSE IF IsObject(value) THEN resolveReferences(value, T)
                  ELSE value]]

\* a non-empty string is the only truthy $extend the documents of the model hold
Truthy(x) == x.t = "str" /\ x.v # <<>>

\* processExtensions, had it not deleted $extend before the merge
RECURSIVE processExtensionsKeepsExtend(_, _)
processExtensionsKeepsExtend(data, T) ==
    IF ~IsObject(data) THEN data
    ELSE LET extendedData == [t |-> data.t, v |-> Spread(data)] IN
         IF "$extend" \in DOMAIN extendedData.v /\ Truthy(extendedData.v["$extend"])
         THEN LET parentUri == extendedData.v["$extend"].v
                  parentData == loadDocument(parentUri, Undefined, T)
              IN  IF parentData.kind = "throw" THEN extendedData
                  ELSE mergeObjects(processExtensionsKeepsExtend(parentData.value, T),
                                    extendedData)
         ELSE extendedData

\* processExtensions, had the catch block returned an empty object
RECURSIVE processExtensionsDropsDocument(_, _)
processExtensionsDropsDocument(data, T) ==
    IF ~IsObject(data) THEN data
    ELSE LET extendedData == [t |-> data.t, v |-> Spread(data)] IN
         IF "$extend" \in DOMAIN extendedData.v /\ Truthy(extendedData.v["$extend"])
         THEN LET parentUri == extendedData.v["$extend"].v
                  parentData == loadDocument(parentUri, Undefined, T)
              IN  IF parentData.kind = "throw" THEN Obj(NoProps)
                  ELSE LET processedParentData ==
                               processExtensionsDropsDocument(parentData.value, T)
                           withoutExtend ==
                               [t |-> extendedData.t,
                                v |-> [k \in DOMAIN extendedData.v \ {"$extend"} |->
                                          extendedData.v[k]]]
                       IN  mergeObjects(processedParentData, withoutExtend)
         ELSE extendedData

\* DataDB.processExtensions
RECURSIVE processExtensions(_, _)
processExtensions(data, T) ==
    IF ~IsObject(data) THEN data
    ELSE LET extendedData == [t |-> data.t, v |-> Spread(data)] IN
         IF "$extend" \in DOMAIN extendedData.v /\ Truthy(extendedData.v["$extend"])
         THEN LET parentUri == extendedData.v["$extend"].v
                  parentData == loadDocument(parentUri, Undefined, T)
              IN  IF parentData.kind = "throw" THEN extendedData
                  ELSE LET processedParentData == processExtensions(parentData.value, T)
                           withoutExtend ==
                               [t |-> extendedData.t,
                                v |-> [k \in DOMAIN extendedData.v \ {"$extend"} |->
                                          extendedData.v[k]]]
                       IN  mergeObjects(processedParentData, withoutExtend)
         ELSE extendedData

\* lines 58-61: the inheritance chain of a path
inheritanceChain(path) ==
    LET segments == FilterNonEmpty(Split(path, "/")) IN
    [index \in 1..Len(segments) |-> Join(SubSeq(segments, 1, index), "/") \o <<"/">>]

\* lines 64-70: merge the registered contexts of chain[i..] into mergedData
RECURSIVE mergeChain(_, _, _, _)
mergeChain(chain, i, mergedData, inheritance) ==
    IF i > Len(chain) THEN mergedData
    ELSE LET dir == chain[i]
             dirData == IF dir \in DOMAIN inheritance THEN inheritance[dir]
                        ELSE Obj(NoProps)
         IN  mergeChain(chain, i + 1, mergeObjects(mergedData, dirData), inheritance)

\* DataDB.mergeInheritedData
mergeInheritedData(path, data, inheritance) ==
    mergeObjects(mergeChain(inheritanceChain(path), 1, Obj(NoProps), inheritance), data)

\* DataDB.fetchMerged; W is the transport and the inheritance map of the instance
fetchMerged(uri, W) ==
    LET fullUri == IF ~EndsWith(uri, extension) /\ ~EndsWith(uri, DotJson)
                   THEN uri \o extension ELSE uri
        loaded == loadDocument(fullUri, Undefined, W.T)
    IN  IF loaded.kind = "throw" THEN loaded
        ELSE LET extended == processExtensions(loaded.value, W.T)
                 inherited == mergeInheritedData(uri, extended, W.inheritance)
             IN  Value(resolveReferences(inherited, W.T))

(***************************************************************************)
(* Inputs of the merge-engine specification                                *)
(***************************************************************************)
MaxNum == 3
MaxArrayLen == 2

Scalars == {Num(n) : n \in 1..MaxNum} \cup {Null}
FlatArrays == UNION {{Arr(q) : q \in [1..n -> Scalars]} : n \in 0..MaxArrayLen}
FlatObjects == {Obj(f) : f \in UNION {[D -> Scalars] : D \in SUBSET {"x", "0"}}}
MergeValues == Scalars \cup FlatArrays \cup FlatObjects

\* operands {a: v}
MergeOperands == {Obj(Prop("a", v)) : v \in MergeValues}

DocUri == <<"d", "o", "c">>
DocJsonUri == <<"d", "o", "c", ".", "j", "s", "o", "n">>
RefJsonUri == <<"r", "e", "f", ".", "j", "s", "o", "n">>
RefJsonVUri == <<"r", "e", "f", ".", "j", "s", "o", "n", "#", "v">>
MissingUri == <<"m", "i", "s", "s", "i", "n", "g", ".", "j", "s", "o", "n">>
UkIndexUri == <<"u", "k", "/", "i", "n", "d", "e", "x">>
UkIndexJsonUri == <<"u", "k", "/", "i", "n", "d", "e", "x", ".", "j", "s", "o", "n">>
RootDir == <<"/">>
UkDir == <<"/", "u", "k", "/">>
UkRelDir == <<"u", "k", "/">>
UkIndexRelDir == <<"u", "k", "/", "i", "n", "d", "e", "x", "/">>
Hi == <<"H", "i">>

RefToRef == Str(RefPrefix \o RefJsonUri)
RefToPointer == Str(RefPrefix \o RefJsonVUri)
RefToMissing == Str(RefPrefix \o MissingUri)

RefDoc == Obj(Prop("v", Num(42)))
UkIndexDoc == Obj("title" :> Str(Hi) @@ "g" :> Num(7))

DocBodies ==
    { Obj(Prop("k", RefToRef)),
      Obj(Prop("k", RefToPointer)),
      Obj(Prop("k", RefToMissing)),
      Obj("k" :> Num(1) @@ "n" :> Obj(Prop("m", RefToRef))
              @@ "l" :> Arr(<<RefToPointer, Num(2)>>)),
      Obj("title" :> Str(Hi) @@ "g" :> Num(7)),
      Obj("$extend" :> Str(RefJsonUri) @@ "title" :> Str(Hi)) }

Served(body) == ResolvesWith(200, Header("content-type", AppJson), body)

\* a reference target that itself holds a $ref string
RefWithRef == Obj(Prop("v", RefToMissing))

RefOutcomes ==
    {Served(RefDoc), Served(RefWithRef), Resolves(404, NoHeaders), Rejects("Error")}
MissingOutcomes == {Resolves(404, NoHeaders), Rejects("Error")}

\* A transport either drops the fragment of the href it is given, as an HTTP
\* request does, or looks the href up literally and finds nothing.
MergeTransports ==
    { (Href(DocJsonUri) :> Served(doc)) @@ (Href(UkIndexJsonUri) :> Served(UkIndexDoc))
        @@ (Href(RefJsonUri) :> ref)
        @@ (Href(RefJsonVUri) :> IF dropsFragment THEN ref ELSE Resolves(404, NoHeaders))
        @@ (Href(MissingUri) :> missing) :
      doc \in DocBodies, ref \in RefOutcomes, dropsFragment \in BOOLEAN,
      missing \in MissingOutcomes }

\* a page that extends _.json, which may itself extend top.json
PageUri == <<"p", "a", "g", "e">>
PageJsonUri == <<"p", "a", "g", "e", ".", "j", "s", "o", "n">>
BaseUri == <<"_", ".", "j", "s", "o", "n">>
TopUri == <<"t", "o", "p", ".", "j", "s", "o", "n">>
En == <<"e", "n">>
Uk == <<"u", "k">>

ExtendBase == Prop("$extend", Str(BaseUri))

PageBodies ==
    { Obj(ExtendBase @@ "title" :> Str(Hi)),
      Obj(ExtendBase @@ "lang" :> Str(Uk) @@ "a" :> Obj(Prop("y", Num(2)))),
      Obj(ExtendBase @@ "a" :> Arr(<<Num(3)>>)) }

BaseBodies ==
    { Obj(Prop("lang", Str(En))),
      Obj("lang" :> Str(En) @@ "a" :> Obj("x" :> Num(1) @@ "y" :> Num(1))),
      Obj("title" :> Str(En) @@ "a" :> Arr(<<Num(1), Num(2)>>)),
      Obj("$extend" :> Str(TopUri) @@ "lang" :> Str(En)) }

TopDoc == Obj("lang" :> Str(Uk) @@ "top" :> Num(1))

BaseOutcomes ==
    {Served(body) : body \in BaseBodies} \cup {Resolves(404, NoHeaders), Rejects("Error")}
TopOutcomes == {Served(TopDoc), Resolves(404, NoHeaders), Rejects("Error")}

ExtendTransports ==
    { (Href(PageJsonUri) :> Served(page)) @@ (Href(BaseUri) :> base) @@ (Href(TopUri) :> top) :
      page \in PageBodies, base \in BaseOutcomes, top \in TopOutcomes }

Inheritances ==
    { [d \in {} |-> Null],
      (RootDir :> Obj("g" :> Num(1) @@ "r" :> Num(1))) @@ (UkDir :> Obj("g" :> Num(2) @@ "u" :> Num(2))),
      (UkRelDir :> Obj("g" :> Num(3))) @@ (UkIndexRelDir :> Obj("h" :> Num(4))) }

\* contexts for a page at the root: none, one registered for the root
\* directory, one under the key mergeInheritedData derives from "page"
PageRelDir == <<"p", "a", "g", "e", "/">>
PageContext == Obj("lang" :> Str(Hi) @@ "title" :> Str(En) @@ "g" :> Num(1))
PageInheritances ==
    { [d \in {} |-> Null],
      (RootDir :> PageContext),
      (PageRelDir :> PageContext) }

MergeCalls ==
    [op : {"mergeObjects"}, target : MergeOperands, source : MergeOperands]
    \cup [op : {"fetchMerged"}, uri : {DocUri, DocJsonUri, UkIndexUri},
          W : [T : MergeTransports, inheritance : Inheritances]]
    \cup [op : {"fetchMerged"}, uri : {PageUri},
          W : [T : ExtendTransports, inheritance : PageInheritances]]

MergeInit ==
    /\ mcall \in MergeCalls
    /\ mresult = Pending
    /\ fcall = Pending
    /\ fresult = Pending
    /\ calls = [i \in Calls |-> IdleCall]
    /\ rcall = Pending
    /\ rresult = Pending
    /\ sresult = Pending
    /\ dcall = Pending
    /\ dresult = Pending
    /\ driver = Pending
    /\ gen = Pending
    /\ pipe = Pending

\* one call of mergeObjects(target, source)
MergeObjects ==
    /\ mresult.kind = "pending"
    /\ mcall.op = "mergeObjects"
    /\ mresult' = Value(mergeObjects(mcall.target, mcall.source))
    /\ UNCHANGED <<fcall, fresult, mcall, calls, rcall, rresult, sresult, pipe, dcall, dresult, driver, gen>>

\* one call of fetchMerged(uri), run to its settlement
FetchMerged ==
    /\ mresult.kind = "pending"
    /\ mcall.op = "fetchMerged"
    /\ mresult' = fetchMerged(mcall.uri, mcall.W)
    /\ UNCHANGED <<fcall, fresult, mcall, calls, rcall, rresult, sresult, pipe, dcall, dresult, driver, gen>>

MergeNext == MergeObjects \/ FetchMerged

MergeSpec == MergeInit /\ [][MergeNext]_vars

(***************************************************************************)
(* DataDB.fetchMerged, one awaited step at a time.  pipe.step is the       *)
(* statement about to run, pipe.data the value of the variable data,       *)
(* pipe.stack the copies held by the calls of processExtensions that wait  *)
(* for their parent, pipe.log the requests made and the inheritance merge, *)
(* in the order they happened.                                             *)
(***************************************************************************)
\* the statements of fetchMerged, had the inheritance merge come second
nextStepInheritsFirst(step) ==
    CASE step = "load" -> "inherit"
      [] step = "inherit" -> "extend"
      [] step = "extend" -> "resolve"
      [] step = "resolve" -> "return"

\* lines 36-47: the statement that follows each statement of fetchMerged
nextStep(step) ==
    CASE step = "load" -> "extend"
      [] step = "extend" -> "inherit"
      [] step = "inherit" -> "resolve"
      [] step = "resolve" -> "return"

\* lines 30-33
fullUri(uri) ==
    IF ~EndsWith(uri, extension) /\ ~EndsWith(uri, DotJson) THEN uri \o extension ELSE uri

Events(step, hrefs) == [i \in 1..Len(hrefs) |-> [step |-> step, href |-> hrefs[i]]]

\* delete extendedData.$extend
WithoutExtend(extendedData) ==
    [t |-> extendedData.t,
     v |-> [k \in DOMAIN extendedData.v \ {"$extend"} |-> extendedData.v[k]]]

\* lines 160-162: the waiting calls of processExtensions return, innermost
\* first, each merging its own copy over what its parent came to
RECURSIVE unwind(_, _)
unwind(processedParentData, stack) ==
    IF stack = <<>> THEN processedParentData
    ELSE unwind(mergeObjects(processedParentData, WithoutExtend(stack[Len(stack)])),
                SubSeq(stack, 1, Len(stack) - 1))

\* the requests resolveReferences makes, one awaited after the other, the
\* keys of a container taken in some order
RECURSIVE refLoads(_, _)
RECURSIVE refLoadsOf(_, _, _)
refLoadsOf(data, keys, T) ==
    IF keys = {} THEN <<>>
    ELSE LET key == CHOOSE k \in keys : TRUE
             value == data.v[key]
             here == IF value.t = "str" /\ StartsWith(value.v, RefPrefix)
                     THEN fetchRemote(Slice(value.v, 5), {}, T).log
                     ELSE IF IsObject(value) THEN refLoads(value, T)
                     ELSE <<>>
         IN  here \o refLoadsOf(data, keys \ {key}, T)

refLoads(data, T) ==
    IF ~IsObject(data) THEN <<>> ELSE refLoadsOf(data, DOMAIN Spread(data), T)

YamlUri == <<"d", "o", "c", ".", "y", "a", "m", "l">>
YamlDoc == Obj(Prop("title", Str(Hi)))

\* a reference target that holds an $extend
RefWithExtend == Obj("$extend" :> Str(TopUri) @@ "v" :> Num(42))

PipePages ==
    { Obj(ExtendBase @@ "title" :> Str(Hi) @@ "r" :> RefToRef),
      Obj(ExtendBase @@ "n" :> Obj(Prop("m", RefToRef))),
      Obj(Prop("title", Str(Hi))) }

PipeBases ==
    { Served(Obj("lang" :> Str(En) @@ "p" :> RefToMissing)),
      Served(Obj("$extend" :> Str(TopUri) @@ "lang" :> Str(En))),
      Resolves(404, NoHeaders), Rejects("Error") }

PipeTransports ==
    { (Href(PageJsonUri) :> Served(page)) @@ (Href(BaseUri) :> base) @@ (Href(TopUri) :> top)
        @@ (Href(RefJsonUri) :> ref) @@ (Href(YamlUri) :> Served(YamlDoc)) :
      page \in PipePages, base \in PipeBases, top \in TopOutcomes,
      ref \in RefOutcomes \cup {Served(RefWithExtend)} }

PipeCalls ==
    [op : {"fetchMerged"}, uri : {PageUri, PageJsonUri, YamlUri},
     W : [T : PipeTransports, inheritance : PageInheritances]]

PipeInit ==
    /\ mcall \in PipeCalls
    /\ mresult = Pending
    /\ pipe = [step |-> "load", data |-> Undefined, stack |-> <<>>, log |-> <<>>]
    /\ fcall = Pending
    /\ fresult = Pending
    /\ calls = [i \in Calls |-> IdleCall]
    /\ rcall = Pending
    /\ rresult = Pending
    /\ sresult = Pending
    /\ dcall = Pending
    /\ dresult = Pending
    /\ driver = Pending
    /\ gen = Pending

\* line 36: data = await this.loadDocument(fullUri); a rejection ends the call
LoadStep ==
    /\ pipe.step = "load"
    /\ LET r == fetchRemote(fullUri(mcall.uri), {}, mcall.W.T)
           loaded == loadDocument(fullUri(mcall.uri), Undefined, mcall.W.T)
       IN  IF loaded.kind = "throw"
           THEN /\ pipe' = [pipe EXCEPT !.step = "rejected",
                                        !.log = @ \o Events("load", r.log)]
                /\ mresult' = loaded
           ELSE /\ pipe' = [pipe EXCEPT !.step = nextStep("load"),
                                        !.data = loaded.value,
                                        !.log = @ \o Events("load", r.log)]
                /\ mresult' = mresult
    /\ UNCHANGED <<fcall, fresult, mcall, calls, rcall, rresult, sresult, dcall, dresult, driver, gen>>

\* line 39: one call of processExtensions runs up to its await of the parent,
\* or the chain has ended and every waiting call returns
ExtendStep ==
    /\ pipe.step = "extend"
    /\ LET data == pipe.data IN
       IF ~IsObject(data)
       THEN pipe' = [pipe EXCEPT !.step = nextStep("extend"),
                                 !.data = unwind(data, pipe.stack), !.stack = <<>>]
       ELSE LET extendedData == [t |-> data.t, v |-> Spread(data)] IN
            IF "$extend" \in DOMAIN extendedData.v /\ Truthy(extendedData.v["$extend"])
            THEN LET parentUri == extendedData.v["$extend"].v
                     r == fetchRemote(parentUri, {}, mcall.W.T)
                     parentData == loadDocument(parentUri, Undefined, mcall.W.T)
                 IN  IF parentData.kind = "throw"
                     THEN pipe' = [pipe EXCEPT !.step = nextStep("extend"),
                                               !.data = unwind(extendedData, pipe.stack),
                                               !.stack = <<>>,
                                               !.log = @ \o Events("extend", r.log)]
                     ELSE pipe' = [pipe EXCEPT !.data = parentData.value,
                                               !.stack = Append(@, extendedData),
                                               !.log = @ \o Events("extend", r.log)]
            ELSE pipe' = [pipe EXCEPT !.step = nextStep("extend"),
                                      !.data = unwind(extendedData, pipe.stack),
                                      !.stack = <<>>]
    /\ UNCHANGED <<fcall, fresult, mcall, mresult, calls, rcall, rresult, sresult, dcall, dresult, driver, gen>>

\* line 42: data = this.mergeInheritedData(uri, data)
InheritStep ==
    /\ pipe.step = "inherit"
    /\ pipe' = [pipe EXCEPT !.step = nextStep("inherit"),
                            !.data = mergeInheritedData(mcall.uri, @, mcall.W.inheritance),
                            !.log = @ \o Events("inherit", << <<>> >>)]
    /\ UNCHANGED <<fcall, fresult, mcall, mresult, calls, rcall, rresult, sresult, dcall, dresult, driver, gen>>

\* line 45: data = await this.resolveReferences(data)
ResolveStep ==
    /\ pipe.step = "resolve"
    /\ pipe' = [pipe EXCEPT !.step = nextStep("resolve"),
                            !.data = resolveReferences(@, mcall.W.T),
                            !.log = @ \o Events("resolve", refLoads(pipe.data, mcall.W.T))]
    /\ UNCHANGED <<fcall, fresult, mcall, mresult, calls, rcall, rresult, sresult, dcall, dresult, driver, gen>>

\* line 47: return data
Return ==
    /\ pipe.step = "return"
    /\ pipe' = [pipe EXCEPT !.step = "returned"]
    /\ mresult' = Value(pipe.data)
    /\ UNCHANGED <<fcall, fresult, mcall, calls, rcall, rresult, sresult, dcall, dresult, driver, gen>>

PipeNext == LoadStep \/ ExtendStep \/ InheritStep \/ ResolveStep \/ Return

PipeSpec == PipeInit /\ [][PipeNext]_vars

(***************************************************************************)
(* The pipeline over documents whose $ref strings form cycles.  The        *)
(* statements of fetchMerged run as above, but resolveReferences is taken  *)
(* one awaited load at a time: pipe.refs holds the references it has still *)
(* to load.  Every $extend chain of these documents ends.                  *)
(***************************************************************************)
RECURSIVE refsIn(_)
RECURSIVE refsInKeys(_, _)
\* lines 123-135: the references resolveReferences loads in data, the keys
\* of a container taken in some order
refsInKeys(data, keys) ==
    IF keys = {} THEN <<>>
    ELSE LET key == CHOOSE k \in keys : TRUE
             value == data.v[key]
             here == IF value.t = "str" /\ StartsWith(value.v, RefPrefix)
                     THEN <<Slice(value.v, 5)>>
                     ELSE IF IsObject(value) THEN refsIn(value)
                     ELSE <<>>
         IN  here \o refsInKeys(data, keys \ {key})

refsIn(data) ==
    IF ~IsObject(data) THEN <<>> ELSE refsInKeys(data, DOMAIN Spread(data))

\* resolveReferences, had it gone on to resolve the references of a target
targetRefsRescanned(refValue) == refsIn(refValue)

\* lines 126-128: resolvedData[key] = refValue: the references a loaded
\* target holds are not resolved
targetRefs(refValue) == <<>>

OtherJsonUri == <<"o", "t", "h", "e", "r", ".", "j", "s", "o", "n">>
RefToPage == Str(RefPrefix \o PageJsonUri)
RefToOther == Str(RefPrefix \o OtherJsonUri)

\* ref.json refers to itself, or to other.json, which refers back
SelfRef == Obj("v" :> Num(42) @@ "me" :> RefToRef)
RefOther == Obj("v" :> Num(42) @@ "o" :> RefToOther)
OtherDoc == Obj(Prop("back", RefToRef))

CyclePages ==
    { Obj(ExtendBase @@ "title" :> Str(Hi) @@ "r" :> RefToRef),
      Obj(ExtendBase @@ "n" :> Obj(Prop("m", RefToRef))),
      Obj("title" :> Str(Hi) @@ "self" :> RefToPage) }

CycleBases ==
    { Served(Obj("lang" :> Str(En) @@ "p" :> RefToPage)),
      Served(Obj("$extend" :> Str(TopUri) @@ "lang" :> Str(En))),
      Resolves(404, NoHeaders) }

CycleTransports ==
    { (Href(PageJsonUri) :> Served(page)) @@ (Href(BaseUri) :> base) @@ (Href(TopUri) :> top)
        @@ (Href(RefJsonUri) :> ref) @@ (Href(OtherJsonUri) :> Served(OtherDoc)) :
      page \in CyclePages, base \in CycleBases, top \in TopOutcomes,
      ref \in {Served(SelfRef), Served(RefOther), Served(RefDoc), Rejects("Error")} }

CycleCalls ==
    [op : {"fetchMerged"}, uri : {PageUri, PageJsonUri},
     W : [T : CycleTransports, inheritance : PageInheritances]]

CycleInit ==
    /\ mcall \in CycleCalls
    /\ mresult = Pending
    /\ pipe = [step |-> "load", data |-> Undefined, stack |-> <<>>, log |-> <<>>,
               refs |-> <<>>]
    /\ fcall = Pending
    /\ fresult = Pending
    /\ calls = [i \in Calls |-> IdleCall]
    /\ rcall = Pending
    /\ rresult = Pending
    /\ sresult = Pending
    /\ dcall = Pending
    /\ dresult = Pending
    /\ driver = Pending
    /\ gen = Pending

\* lines 115-123: resolveReferences is called on the data of the pipeline
ResolveScan ==
    /\ pipe.step = "resolve"
    /\ pipe' = [pipe EXCEPT !.step = "resolving", !.refs = refsIn(pipe.data)]
    /\ UNCHANGED <<fcall, fresult, mcall, mresult, calls, rcall, rresult, sresult, dcall, dresult, driver, gen>>

\* lines 124-132: one reference is loaded; a load that fails keeps the string
ResolveLoad ==
    /\ pipe.step = "resolving"
    /\ pipe.refs # <<>>
    /\ LET refValue == loadDocument(Head(pipe.refs), Undefined, mcall.W.T) IN
       pipe' = [pipe EXCEPT !.refs = IF refValue.kind = "throw" THEN Tail(@)
                                     ELSE Tail(@) \o targetRefs(refValue.value)]
    /\ UNCHANGED <<fcall, fresult, mcall, mresult, calls, rcall, rresult, sresult, dcall, dresult, driver, gen>>

\* line 138: return resolvedData
ResolveReturns ==
    /\ pipe.step = "resolving"
    /\ pipe.refs = <<>>
    /\ pipe' = [pipe EXCEPT !.step = nextStep("resolve"),
                            !.data = resolveReferences(@, mcall.W.T)]
    /\ UNCHANGED <<fcall, fresult, mcall, mresult, calls, rcall, rresult, sresult, dcall, dresult, driver, gen>>

CycleNext ==
    \/ LoadStep
    \/ ExtendStep
    \/ InheritStep
    \/ ResolveScan
    \/ ResolveLoad
    \/ ResolveReturns
    \/ Return

CycleSpec == CycleInit /\ [][CycleNext]_vars

(***************************************************************************)
(* The document operations: BrowserDB.throwError, saveDocument,            *)
(* writeDocument, dropDocument, loadDocument, and DBBrowser.statDocument.  *)
(* ensureAccess is called with one of the levels r, w, d and returns.      *)
(***************************************************************************)
\* A body that is not JSON.  response.text() gives a Text body after
\* response.json() failed, as a mocked or buffered response does; it throws
\* for a Stream body, which a fetch Response does not read a second time.
Text(s) == [t |-> "text", v |-> s]
Stream(s) == [t |-> "stream", v |-> s]
True == [t |-> "bool", v |-> 1]

Throws(name) == [kind |-> "throw", err |-> [name |-> name, status |-> 0, origin |-> <<>>]]

\* await response.json()
json(response) ==
    IF response.body.t \in {"text", "stream", "undefined"} THEN Throws("SyntaxError")
    ELSE Value(response.body)

\* await response.text(), called after response.json() threw
text(response) ==
    IF response.body.t = "text" THEN Value(Str(response.body.v)) ELSE Throws("TypeError")

\* payload?.key
OptionalGet(payload, key) ==
    IF payload.t = "obj" /\ key \in DOMAIN payload.v THEN payload.v[key] ELSE Undefined

\* a ?? b
Coalesce(a, b) == IF a.t \in {"null", "undefined"} THEN b ELSE a

ObjectObject == <<"[", "o", "b", "j", "e", "c", "t", " ", "O", "b", "j", "e", "c", "t", "]">>

RECURSIVE Digits(_)
Digits(n) ==
    LET d == <<"0", "1", "2", "3", "4", "5", "6", "7", "8", "9">> IN
    IF n < 10 THEN <<d[n + 1]>> ELSE Digits(n \div 10) \o <<d[(n % 10) + 1]>>

\* String(x) for a string, a natural number, a plain object
String(x) ==
    CASE x.t = "str" -> x.v
      [] x.t = "num" -> Digits(x.v)
      [] x.t = "obj" -> ObjectObject

\* new HTTPError(message, status)
HTTPError(message, status) == [name |-> "HTTPError", message |-> message, status |-> status]

\* throwError, had it given every error the status 500 and the default message
throwErrorWithoutStatus(response, message) ==
    [kind |-> "throw", err |-> HTTPError(message, 500)]

\* BrowserDB.throwError
throwError(response, message) ==
    LET parsed == json(response)
        raw == text(response)
        payload == IF parsed.kind = "value" THEN parsed.value
                   ELSE IF raw.kind = "value" THEN raw.value
                   ELSE Null
    IN  [kind |-> "throw",
         err |-> HTTPError(String(Coalesce(OptionalGet(payload, "error"),
                                  Coalesce(OptionalGet(payload, "message"),
                                  Coalesce(payload, Str(message))))),
                           response.status)]

FailedToSave == <<"F", "a", "i", "l", "e", "d", " ", "t", "o", " ", "s", "a", "v", "e", " ", "d", "o", "c", "u", "m", "e", "n", "t">>
FailedToWrite == <<"F", "a", "i", "l", "e", "d", " ", "t", "o", " ", "w", "r", "i", "t", "e", " ", "d", "o", "c", "u", "m", "e", "n", "t">>
FailedToDelete == <<"F", "a", "i", "l", "e", "d", " ", "t", "o", " ", "d", "e", "l", "e", "t", "e", " ", "d", "o", "c", "u", "m", "e", "n", "t">>

\* [text, uri].join(": ")
FailedMessage(failure, uri) == failure \o <<":", " ">> \o uri

\* BrowserDB.saveDocument: the request goes to the URI as it was given
saveDocument(uri, T) ==
    LET out == fetchFn(T, uri) IN
    IF out.kind = "reject"
    THEN [kind |-> "throw", err |-> TransportError(uri, out.name)]
    ELSE LET response == Response(uri, out) IN
         IF ~response.ok THEN throwError(response, FailedMessage(FailedToSave, uri))
         ELSE json(response)

\* BrowserDB.writeDocument
writeDocument(uri, T) ==
    LET r == fetchRemote(uri, {}, T) IN
    IF r.kind = "throw" THEN [kind |-> "throw", err |-> r.err]
    ELSE IF ~r.response.ok THEN throwError(r.response, FailedMessage(FailedToWrite, uri))
    ELSE IF json(r.response).kind = "value" THEN json(r.response)
    ELSE IF text(r.response).kind = "value" THEN text(r.response)
    ELSE Value(True)

\* BrowserDB.dropDocument
dropDocument(uri, T) ==
    LET r == fetchRemote(uri, {}, T) IN
    IF r.kind = "throw" THEN [kind |-> "throw", err |-> r.err]
    ELSE IF ~r.response.ok THEN throwError(r.response, FailedMessage(FailedToDelete, uri))
    ELSE Value(True)

\* name.toLowerCase() for the header names of the model
toLowerCase(name) ==
    CASE name \in {"Content-Length", "content-length"} -> "content-length"
      [] name \in {"Last-Modified", "last-modified", "LAST-MODIFIED"} -> "last-modified"
      [] name \in {"Date", "date"} -> "date"
      [] OTHER -> name

\* new Headers(entries): a Map under the lower-cased names
Headers(entries) ==
    [n \in {toLowerCase(m) : m \in DOMAIN entries} |->
        entries[CHOOSE m \in DOMAIN entries : toLowerCase(m) = n]]

\* hdrs.get(name): "" stands for undefined, neither being served as a value
HeaderGet(hdrs, name) == IF name \in DOMAIN hdrs THEN hdrs[name] ELSE <<>>

Length123 == <<"1", "2", "3">>
Oct2015 == <<"W", "e", "d", ",", " ", "2", "1", " ", "O", "c", "t", " ", "2", "0", "1", "5", " ", "0", "7", ":", "2", "8", ":", "0", "0", " ", "G", "M", "T">>
Nov2015 == <<"S", "a", "t", ",", " ", "2", "1", " ", "N", "o", "v", " ", "2", "0", "1", "5", " ", "0", "7", ":", "2", "8", ":", "0", "0", " ", "G", "M", "T">>

\* Number(s) for a string of decimal digits
RECURSIVE Number(_)
Number(s) ==
    IF s = <<>> THEN 0
    ELSE LET last == s[Len(s)]
             d == CHOOSE n \in 0..9 : Digits(n) = <<last>>
         IN  10 * Number(SubSeq(s, 1, Len(s) - 1)) + d

\* new Date(s).getTime() for the dates of the model, in seconds: the count of
\* milliseconds is 1000 times the value
DateGetTime(s) ==
    CASE s = Oct2015 -> 1445412480
      [] s = Nov2015 -> 1448090880

\* new DocumentStat(): nothing exists under the URI
NoDocumentStat == [isFile |-> FALSE, mtimeMs |-> 0, size |-> 0]
DocumentStat(isFile, mtimeMs, size) == [isFile |-> isFile, mtimeMs |-> mtimeMs, size |-> size]

\* DBBrowser.statDocument; now is what Date.now() returns
statDocument(uri, T, now) ==
    LET href == Href(uri)
        out == fetchFn(T, href)
    IN  IF out.kind = "reject"
        THEN [kind |-> "throw", err |-> TransportError(href, out.name)]
        ELSE IF out.status = 404 THEN Value(NoDocumentStat)
        ELSE LET hdrs == Headers(out.headers)
                 lm == IF HeaderGet(hdrs, "last-modified") # <<>>
                       THEN HeaderGet(hdrs, "last-modified")
                       ELSE HeaderGet(hdrs, "date")
                 mtimeMs == IF lm # <<>> THEN DateGetTime(lm) ELSE now
                 size == Number(HeaderGet(hdrs, "content-length"))
             IN  Value(DocumentStat(TRUE, mtimeMs, size))

(***************************************************************************)
(* Inputs of the document operations                                       *)
(***************************************************************************)
ServerError == <<"E">>
ServerMessage == <<"M">>
RawText == <<"r", "a", "w">>

ErrorBodies ==
    { Obj(Prop("error", Str(ServerError))),
      Obj(Prop("message", Str(ServerMessage))),
      Obj("error" :> Str(ServerError) @@ "message" :> Str(ServerMessage)),
      Obj(Prop("code", Num(1))),
      Text(RawText), Stream(RawText), Undefined }

WriteOutcomes ==
    {ResolvesWith(status, NoHeaders, body) : status \in Statuses, body \in ErrorBodies}
    \cup {Rejects("Error")}

\* the requests of a write or a delete of "data": the URI answers 404 and
\* the requests for "data" plus an extension follow
FallbackTransports ==
    { (Href(DataUri) :> Resolves(404, NoHeaders)) @@ (Href(DataUri \o DATA_EXTNAMES[1]) :> o)
        @@ (Href(DataUri \o DATA_EXTNAMES[6]) :> last) :
      o \in WriteOutcomes, last \in {Resolves(404, NoHeaders), Resolves(500, NoHeaders)} }

Fallback == Obj(Prop("fallback", Num(1)))

LoadOutcomes ==
    { Served(RefDoc), Resolves(404, NoHeaders), Resolves(500, NoHeaders), Rejects("Error") }

StatHeaders ==
    { length @@ modified @@ date :
      length \in {NoHeaders, Header("Content-Length", Length123),
                  Header("content-length", Length123)},
      modified \in {NoHeaders, Header("Last-Modified", Oct2015),
                    Header("last-modified", Oct2015), Header("LAST-MODIFIED", Oct2015)},
      date \in {NoHeaders, Header("Date", Nov2015), Header("date", Nov2015)} }

StatOutcomes ==
    {Resolves(status, headers) : status \in Statuses, headers \in StatHeaders}
    \cup {Rejects("Error")}

Clock == {1500000000, 1600000000}

DocCalls ==
    [op : {"saveDocument"}, uri : {DocJsonUri},
     T : {(DocJsonUri :> o) : o \in WriteOutcomes}]
    \cup [op : {"writeDocument", "dropDocument"}, uri : {DocJsonUri},
          T : {(Href(DocJsonUri) :> o) : o \in WriteOutcomes}]
    \cup [op : {"writeDocument", "dropDocument"}, uri : {DataUri}, T : FallbackTransports]
    \cup [op : {"loadDocument"}, uri : {DocJsonUri}, defaultValue : {Undefined, Fallback},
          T : {(Href(DocJsonUri) :> o) : o \in LoadOutcomes}]
    \cup [op : {"statDocument"}, uri : {DocJsonUri}, now : Clock,
          T : {(Href(DocJsonUri) :> o) : o \in StatOutcomes}]

DocInit ==
    /\ dcall \in DocCalls
    /\ dresult = Pending
    /\ driver = Pending
    /\ gen = Pending
    /\ fcall = Pending
    /\ fresult = Pending
    /\ mcall = Pending
    /\ mresult = Pending
    /\ calls = [i \in Calls |-> IdleCall]
    /\ rcall = Pending
    /\ rresult = Pending
    /\ sresult = Pending
    /\ pipe = Pending

SaveDocument ==
    /\ dresult.kind = "pending"
    /\ dcall.op = "saveDocument"
    /\ dresult' = saveDocument(dcall.uri, dcall.T)
    /\ UNCHANGED <<fcall, fresult, mcall, mresult, calls, rcall, rresult, sresult, pipe, dcall, driver, gen>>

WriteDocument ==
    /\ dresult.kind = "pending"
    /\ dcall.op = "writeDocument"
    /\ dresult' = writeDocument(dcall.uri, dcall.T)
    /\ UNCHANGED <<fcall, fresult, mcall, mresult, calls, rcall, rresult, sresult, pipe, dcall, driver, gen>>

DropDocument ==
    /\ dresult.kind = "pending"
    /\ dcall.op = "dropDocument"
    /\ dresult' = dropDocument(dcall.uri, dcall.T)
    /\ UNCHANGED <<fcall, fresult, mcall, mresult, calls, rcall, rresult, sresult, pipe, dcall, driver, gen>>

LoadDocument ==
    /\ dresult.kind = "pending"
    /\ dcall.op = "loadDocument"
    /\ dresult' = loadDocument(dcall.uri, dcall.defaultValue, dcall.T)
    /\ UNCHANGED <<fcall, fresult, mcall, mresult, calls, rcall, rresult, sresult, pipe, dcall, driver, gen>>

StatDocument ==
    /\ dresult.kind = "pending"
    /\ dcall.op = "statDocument"
    /\ dresult' = statDocument(dcall.uri, dcall.T, dcall.now)
    /\ UNCHANGED <<fcall, fresult, mcall, mresult, calls, rcall, rresult, sresult, pipe, dcall, driver, gen>>

DocNext == SaveDocument \/ WriteDocument \/ DropDocument \/ LoadDocument \/ StatDocument

DocSpec == DocInit /\ [][DocNext]_vars

(***************************************************************************)
(* The access check of the document verbs.  A verb first awaits            *)
(* this.ensureAccess(uri, level) and then calls the transport.  The        *)
(* instance runs the method of the class or an override of it, here one    *)
(* that lets only reads through.                                           *)
(***************************************************************************)
\* ensureAccess, had it accepted every level
ensureAccessAcceptsAll(uri, level) == Value(Undefined)

\* BrowserDB.ensureAccess
ensureAccess(uri, level) ==
    IF level \notin {"r", "w", "d"} THEN Throws("TypeError") ELSE Value(Undefined)

\* db.ensureAccess of the instance
instanceEnsureAccess(guard, uri, level) ==
    IF guard = "readonly" /\ level # "r" THEN Throws("Error") ELSE ensureAccess(uri, level)

\* the level each verb passes to ensureAccess
verbLevel(op) ==
    CASE op = "loadDocument" -> "r"
      [] op \in {"saveDocument", "writeDocument"} -> "w"
      [] op = "dropDocument" -> "d"

\* what the verb does after the check, and the number of its transport calls
verbBody(c) ==
    CASE c.op = "loadDocument" ->
            [result |-> loadDocument(c.uri, c.defaultValue, c.T),
             requests |-> Len(fetchRemote(c.uri, {}, c.T).log)]
      [] c.op = "saveDocument" ->
            [result |-> saveDocument(c.uri, c.T), requests |-> 1]
      [] c.op = "writeDocument" ->
            [result |-> writeDocument(c.uri, c.T),
             requests |-> Len(fetchRemote(c.uri, {}, c.T).log)]
      [] c.op = "dropDocument" ->
            [result |-> dropDocument(c.uri, c.T),
             requests |-> Len(fetchRemote(c.uri, {}, c.T).log)]

Levels == {"r", "w", "d", "x", "rw", ""}

AccessCalls ==
    [op : {"ensureAccess"}, uri : {DocJsonUri}, level : Levels]
    \cup [op : {"verb"}, guard : {"class", "readonly"},
          call : {c \in DocCalls : c.op # "statDocument"}]

AccessInit ==
    /\ dcall \in AccessCalls
    /\ dresult = Pending
    /\ driver = Pending
    /\ gen = Pending
    /\ fcall = Pending
    /\ fresult = Pending
    /\ mcall = Pending
    /\ mresult = Pending
    /\ calls = [i \in Calls |-> IdleCall]
    /\ rcall = Pending
    /\ rresult = Pending
    /\ sresult = Pending
    /\ pipe = Pending

\* a call of db.ensureAccess(uri, level)
EnsureAccess ==
    /\ dresult.kind = "pending"
    /\ dcall.op = "ensureAccess"
    /\ dresult' = [kind |-> "settled", requests |-> 0,
                   result |-> ensureAccess(dcall.uri, dcall.level)]
    /\ UNCHANGED <<fcall, fresult, mcall, mresult, calls, rcall, rresult, sresult, pipe, dcall, driver, gen>>

\* the first statement of a verb: await this.ensureAccess(uri, level)
VerbChecksAccess ==
    /\ dresult.kind = "pending"
    /\ dcall.op = "verb"
    /\ LET checked == instanceEnsureAccess(dcall.guard, dcall.call.uri,
                                           verbLevel(dcall.call.op))
       IN  dresult' = IF checked.kind = "throw"
                      THEN [kind |-> "settled", requests |-> 0, result |-> checked]
                      ELSE [kind |-> "checked", requests |-> 0, result |-> Pending]
    /\ UNCHANGED <<fcall, fresult, mcall, mresult, calls, rcall, rresult, sresult, pipe, dcall, driver, gen>>

\* the rest of the verb: the transport is called and the verb settles
VerbCallsTransport ==
    /\ dresult.kind = "checked"
    /\ dresult' = [kind |-> "settled", requests |-> verbBody(dcall.call).requests,
                   result |-> verbBody(dcall.call).result]
    /\ UNCHANGED <<fcall, fresult, mcall, mresult, calls, rcall, rresult, sresult, pipe, dcall, driver, gen>>

AccessNext == EnsureAccess \/ VerbChecksAccess \/ VerbCallsTransport

AccessSpec == AccessInit /\ [][AccessNext]_vars

(***************************************************************************)
(* BrowserDriver.  driver.store is the object store of IndexedDB,          *)
(* driver.cache and driver.metaCache are this._cache and this._metaCache,  *)
(* driver.queue holds the transactions the calls have created and that     *)
(* have not finished, in the order of their creation.  IndexedDB starts a  *)
(* transaction when every earlier transaction on the store has finished,   *)
(* or at once when it and all the earlier ones are read-only; a            *)
(* transaction finishes when the success handler of its request has run.   *)
(* The continuation of an await runs before the next event is dispatched.  *)
(* A scenario is one call run alone, then two calls that overlap, then one *)
(* call run alone.  driver.puts and driver.past are the history: the       *)
(* documents put in the store, and the store and the results at the end of *)
(* each stage.                                                             *)
(***************************************************************************)
NotCached == [t |-> "absent", v |-> 0]

\* this._cache.set(uri, value), this._metaCache.set(uri, value)
MapSet(map, uri, value) == [map EXCEPT ![uri] = value]

\* this._cache.delete(uri)
MapDelete(map, uri) == [map EXCEPT ![uri] = NotCached]

\* request.onsuccess of write, had it left the cache alone
writeSucceededKeepsCache(cache, uri, document) == cache

\* request.onsuccess of write: this._cache.set(uri, document)
writeSucceeded(cache, uri, document) == MapSet(cache, uri, document)

\* current + chunk, where current = (await this.read(uri)) || ''
appended(current, chunk) ==
    Str((IF current.t = "str" THEN current.v ELSE <<>>) \o chunk.v)

\* new Blob([JSON.stringify(document)]).size for a string of plain letters
\* (the text in quotes) and for undefined (the text "undefined")
blobSize(document) == IF document.t = "str" THEN Len(document.v) + 2 ELSE 9

NotesUri == "notes.txt"
OtherUri == "other.txt"
DriverUris == {NotesUri, OtherUri}
DriverDocs == {Str(<<"y">>), Str(<<"z", "z">>)}
Chunks == {Str(<<"a">>), Str(<<"b">>)}
Callers == {1, 2}
\* each caller has at most one transaction in the queue
MaxQueue == Cardinality(Callers)

NoCall == [op |-> "none", uri |-> NotesUri, arg |-> Undefined]
DriverCallsOn(uris) ==
    [op : {"read", "stat", "delete"}, uri : uris, arg : {Undefined}]
    \cup [op : {"write"}, uri : uris, arg : DriverDocs]
    \cup [op : {"append"}, uri : uris, arg : Chunks]

Scenarios ==
    [before : {NoCall} \cup {c \in DriverCallsOn({NotesUri}) :
                                /\ c.op \in {"read", "stat", "write"}
                                /\ c.arg \in {Undefined, Str(<<"y">>)}},
     during : {<<c1, c2>> : c1 \in {c \in DriverCallsOn({NotesUri}) : c.op # "read"},
                            c2 \in {c \in DriverCallsOn(DriverUris) : c.op # "read"}},
     after  : {c \in DriverCallsOn({NotesUri}) : c.op \in {"read", "stat"}}]

\* the call the caller k makes in the stage of the scenario
callOf(d, k) ==
    CASE d.stage = 1 -> IF k = 1 THEN d.scenario.before ELSE NoCall
      [] d.stage = 2 -> d.scenario.during[k]
      [] OTHER       -> IF k = 1 THEN d.scenario.after ELSE NoCall

IdleCaller == [pc |-> "idle", local |-> Undefined, result |-> Pending]
CallOver(result) == [pc |-> "done", local |-> Undefined, result |-> result]
FreshCaller(call) == IF call.op = "none" THEN CallOver(Value(Undefined)) ELSE IdleCaller

\* this._getStore(mode) and the request made on it
Transaction(k, mode, request, uri, document) ==
    [caller |-> k, mode |-> mode, request |-> request, uri |-> uri,
     document |-> document, phase |-> "queued", result |-> Undefined]

Enqueue(d, k, tx) ==
    [d EXCEPT !.queue = Append(@, tx), !.callers[k].pc = "waiting"]

\* the promise of read settles with data: a call of read is over, append
\* and stat go on after their await
readResolved(d, k, data) ==
    [d EXCEPT !.callers[k] =
        IF callOf(d, k).op = "read" THEN CallOver(Value(data))
        ELSE [pc |-> "resume", local |-> data, result |-> Pending]]

\* read(uri)
read(d, k, uri) ==
    IF d.cache[uri] # NotCached THEN readResolved(d, k, d.cache[uri])
    ELSE Enqueue(d, k, Transaction(k, "readonly", "get", uri, Undefined))

\* write(uri, document)
write(d, k, uri, document) ==
    Enqueue(d, k, Transaction(k, "readwrite", "put", uri, document))

\* delete(uri)
delete(d, k, uri) ==
    Enqueue(d, k, Transaction(k, "readwrite", "delete", uri, Undefined))

\* stat(uri) up to its await
stat(d, k, uri) ==
    IF d.metaCache[uri] # NotCached
    THEN [d EXCEPT !.callers[k] = CallOver(Value(d.metaCache[uri]))]
    ELSE read(d, k, uri)

\* stat(uri) after its await, at the time now
statResumed(d, k, uri, now) ==
    LET stat_ == DocumentStat(TRUE, now, blobSize(d.callers[k].local)) IN
    [d EXCEPT !.metaCache = MapSet(@, uri, stat_),
              !.callers[k] = CallOver(Value(stat_))]

\* the transaction at i leaves the queue
Dequeue(queue, i) == SubSeq(queue, 1, i - 1) \o SubSeq(queue, i + 1, Len(queue))

\* IndexedDB may start the transaction at i
MayStart(queue, i) ==
    \A j \in 1..(i - 1) : queue[i].mode = "readonly" /\ queue[j].mode = "readonly"

DriverInit ==
    /\ driver \in
        {[scenario  |-> s,
          stage     |-> 1,
          callers   |-> [k \in Callers |-> FreshCaller(IF k = 1 THEN s.before ELSE NoCall)],
          queue     |-> <<>>,
          store     |-> [u \in DriverUris |-> Undefined],
          cache     |-> [u \in DriverUris |-> NotCached],
          metaCache |-> [u \in DriverUris |-> NotCached],
          puts      |-> <<>>,
          past      |-> <<>>] : s \in Scenarios}
    /\ gen = Pending
    /\ fcall = Pending
    /\ fresult = Pending
    /\ mcall = Pending
    /\ mresult = Pending
    /\ calls = [i \in Calls |-> IdleCall]
    /\ rcall = Pending
    /\ rresult = Pending
    /\ sresult = Pending
    /\ pipe = Pending
    /\ dcall = Pending
    /\ dresult = Pending

DriverUnchanged ==
    UNCHANGED <<fcall, fresult, mcall, mresult, calls, rcall, rresult, sresult, pipe, dcall, dresult, gen>>

\* the caller k calls read, write, append, stat or delete
DriverCall(k) ==
    /\ driver.callers[k].pc = "idle"
    /\ LET c == callOf(driver, k) IN
       driver' = CASE c.op = "read"   -> read(driver, k, c.uri)
                   [] c.op = "write"  -> write(driver, k, c.uri, c.arg)
                   [] c.op = "append" -> read(driver, k, c.uri)
                   [] c.op = "stat"   -> stat(driver, k, c.uri)
                   [] OTHER           -> delete(driver, k, c.uri)
    /\ DriverUnchanged

\* append and stat go on after await this.read(uri)
DriverResume(k) ==
    /\ driver.callers[k].pc = "resume"
    /\ LET c == callOf(driver, k) IN
       \E now \in Clock :
           driver' = IF c.op = "append"
                     THEN write(driver, k, c.uri, appended(driver.callers[k].local, c.arg))
                     ELSE statResumed(driver, k, c.uri, now)
    /\ DriverUnchanged

\* IndexedDB carries out the request of a transaction
RequestExecutes(i) ==
    /\ i \in 1..Len(driver.queue)
    /\ driver.queue[i].phase = "queued"
    /\ MayStart(driver.queue, i)
    /\ LET tx == driver.queue[i] IN
       driver' = CASE tx.request = "get" ->
                        [driver EXCEPT !.queue[i].phase = "executed",
                                       !.queue[i].result = driver.store[tx.uri]]
                   [] tx.request = "put" ->
                        [driver EXCEPT !.queue[i].phase = "executed",
                                       !.store[tx.uri] = tx.document,
                                       !.puts = Append(@, [uri |-> tx.uri, document |-> tx.document])]
                   [] OTHER ->
                        [driver EXCEPT !.queue[i].phase = "executed",
                                       !.store[tx.uri] = Undefined]
    /\ DriverUnchanged

\* request.onsuccess of read, write and delete
RequestSucceeds(i) ==
    /\ i \in 1..Len(driver.queue)
    /\ driver.queue[i].phase = "executed"
    /\ \A k \in Callers : driver.callers[k].pc # "resume"
    /\ LET tx == driver.queue[i]
           d  == [driver EXCEPT !.queue = Dequeue(@, i)] IN
       driver' = CASE tx.request = "get" ->
                        readResolved([d EXCEPT !.cache = MapSet(@, tx.uri, tx.result)],
                                     tx.caller, tx.result)
                   [] tx.request = "put" ->
                        [d EXCEPT !.cache = writeSucceeded(@, tx.uri, tx.document),
                                  !.callers[tx.caller] = CallOver(Value(True))]
                   [] OTHER ->
                        [d EXCEPT !.cache = MapDelete(@, tx.uri),
                                  !.metaCache = MapDelete(@, tx.uri),
                                  !.callers[tx.caller] = CallOver(Value(True))]
    /\ DriverUnchanged

\* request.onerror of read, write and delete: the request fails and
\* changes nothing
RequestFails(i) ==
    /\ i \in 1..Len(driver.queue)
    /\ driver.queue[i].phase = "queued"
    /\ MayStart(driver.queue, i)
    /\ \A k \in Callers : driver.callers[k].pc # "resume"
    /\ driver' = [driver EXCEPT !.queue = Dequeue(@, i),
                                !.callers[driver.queue[i].caller] = CallOver(Throws("Error"))]
    /\ DriverUnchanged

\* the calls of a stage are over, the calls of the next stage can be made
NextStage ==
    /\ driver.stage < 3
    /\ \A k \in Callers : driver.callers[k].pc = "done"
    /\ driver' = LET d == [driver EXCEPT
                              !.stage = @ + 1,
                              !.past = Append(@, [store   |-> driver.store,
                                                  results |-> [k \in Callers |-> driver.callers[k].result]])] IN
                 [d EXCEPT !.callers = [k \in Callers |-> FreshCaller(callOf(d, k))]]
    /\ DriverUnchanged

DriverNext ==
    \/ \E k \in Callers : DriverCall(k)
    \/ \E k \in Callers : DriverResume(k)
    \/ \E i \in 1..MaxQueue : RequestExecutes(i)
    \/ \E i \in 1..MaxQueue : RequestSucceeds(i)
    \/ \E i \in 1..MaxQueue : RequestFails(i)
    \/ NextStage

DriverSpec == DriverInit /\ [][DriverNext]_vars

(***************************************************************************)
(* DBBrowser.readDir, an async generator.  Its body runs when the consumer *)
(* asks for the next entry and stops at a yield; the consumer may also     *)
(* finish the generator (it.return, the break of a for await loop) or      *)
(* throw into it (it.throw).  gen.requests are the transport requests of   *)
(* the two index loads, gen.yielded the entries handed out with the source *)
(* of each, gen.warned the indexes whose catch block ran.                  *)
(***************************************************************************)
IndexTxt == <<"i", "n", "d", "e", "x", ".", "t", "x", "t">>
IndexTxtl == <<"i", "n", "d", "e", "x", ".", "t", "x", "t", "l">>

\* this.resolveSync(dirUri, name) for the directory URIs of the model: empty
\* or a relative name that ends with "/"
indexUriOf(dirUri, source) ==
    dirUri \o (IF source = "full" THEN IndexTxtl ELSE IndexTxt)

\* for (const entry of entries) needs an iterable
Iterable(x) == x.t = "arr"
Elements(x) == [i \in 1..Cardinality(DOMAIN x.v) |-> x.v[IndexName[i]]]

\* the catch block of an index
Warn(g, source) == [g EXCEPT !.warned = @ \cup {source}]

\* the for loop over entries reaches its first yield, or return when there
\* is none
Enter(g, source, entries) ==
    IF entries = <<>> THEN [g EXCEPT !.pc = "done"]
    ELSE [g EXCEPT !.pc = "yield", !.source = source, !.rest = Tail(entries),
                   !.yielded = Append(@, [source |-> source, entry |-> Head(entries)])]

\* lines 478-507: the body from the try block of source on, up to its next
\* yield or its end
RECURSIVE runFrom(_, _)
runFrom(g, source) ==
    IF source = "base"
    THEN Enter([g EXCEPT !.delegated = TRUE], "base", g.call.base)
    ELSE LET r == fetchRemote(indexUriOf(g.call.uri, source), {}, g.call.T)
             g1 == [g EXCEPT !.requests = @ \o Events(source, r.log)]
             following == IF source = "full" THEN "shallow" ELSE "base"
         IN  IF r.kind = "throw" THEN runFrom(Warn(g1, source), following)
             ELSE IF ~r.response.ok THEN runFrom(g1, following)
             ELSE LET entries == json(r.response) IN
                  IF entries.kind = "throw" \/ ~Iterable(entries.value)
                  THEN runFrom(Warn(g1, source), following)
                  ELSE Enter(g1, source, Elements(entries.value))

F1 == <<"f", "1">>
F2 == <<"f", "2">>
S1 == <<"s", "1">>
B1 == <<"b", "1">>
PlainText == <<"t", "e", "x", "t", "/", "p", "l", "a", "i", "n">>

\* an index is served as an array of entries, as an empty array, as text
\* that is not JSON, as a JSON object, or it is missing, or the load fails
IndexOutcomes(entries) ==
    { Served(Arr(entries)), Served(Arr(<<>>)),
      ResolvesWith(200, Header("content-type", PlainText), Text(F1 \o <<" ", "1", " ", "1">>)),
      Served(Obj(NoProps)), Resolves(404, NoHeaders), Rejects("Error") }

ReadDirCalls ==
    UNION {[uri  : {dir},
            T    : { (Href(indexUriOf(dir, "full")) :> full)
                        @@ (Href(indexUriOf(dir, "shallow")) :> shallow) :
                     full \in IndexOutcomes(<<Str(F1), Str(F2)>>),
                     shallow \in IndexOutcomes(<<Str(S1)>>) },
            base : {<<>>, <<Str(B1)>>}] : dir \in {<<>>, UkRelDir}}

ReadDirInit ==
    /\ gen \in {[call |-> c, pc |-> "start", source |-> "none", rest |-> <<>>,
                 yielded |-> <<>>, requests |-> <<>>, warned |-> {},
                 delegated |-> FALSE, thrownInto |-> FALSE] : c \in ReadDirCalls}
    /\ fcall = Pending
    /\ fresult = Pending
    /\ mcall = Pending
    /\ mresult = Pending
    /\ calls = [i \in Calls |-> IdleCall]
    /\ rcall = Pending
    /\ rresult = Pending
    /\ sresult = Pending
    /\ pipe = Pending
    /\ dcall = Pending
    /\ dresult = Pending
    /\ driver = Pending

ReadDirUnchanged ==
    UNCHANGED <<fcall, fresult, mcall, mresult, calls, rcall, rresult, sresult, pipe, dcall, dresult, driver>>

\* it.next(): the body starts, or goes on after the yield it stopped at
ConsumerNext ==
    /\ gen.pc \in {"start", "yield"}
    /\ gen' = IF gen.pc = "start" THEN runFrom(gen, "full")
              ELSE Enter(gen, gen.source, gen.rest)
    /\ ReadDirUnchanged

\* it.return(): the generator ends where it stopped
ConsumerReturn ==
    /\ gen.pc \in {"start", "yield"}
    /\ gen' = [gen EXCEPT !.pc = "done"]
    /\ ReadDirUnchanged

\* it.throw(err): the yield the body stopped at throws err; within a try
\* block the catch block runs and the body goes on, within yield* and
\* before the start the generator ends with err
ConsumerThrow ==
    /\ gen.pc \in {"start", "yield"}
    /\ gen' = LET g == [gen EXCEPT !.thrownInto = TRUE] IN
              IF gen.pc = "start" \/ gen.source = "base" THEN [g EXCEPT !.pc = "done"]
              ELSE runFrom(Warn(g, gen.source),
                           IF gen.source = "full" THEN "shallow" ELSE "base")
    /\ ReadDirUnchanged

ReadDirNext == ConsumerNext \/ ConsumerReturn \/ ConsumerThrow

ReadDirSpec == ReadDirInit /\ [][ReadDirNext]_vars

(***************************************************************************)
(* The merge pipeline on a heap.  An object or an array is a cell of the   *)
(* heap, a sequence of cells; a property holds a primitive value or a      *)
(* reference to a cell.  S.heap is the memory, S.snap records each cell    *)
(* that is an input of the pipeline as it was when it came into being: the *)
(* cells of the inheritance map and the cells of every parsed response.    *)
(* Each operation takes S and gives the S that follows and its value.      *)
(***************************************************************************)
Ref(id) == [t |-> "ref", v |-> id]
IsRef(x) == x.t = "ref"

EmptyObject == [t |-> "obj", v |-> NoProps]

\* a new cell: {} or [] and what is assigned to it at once
Alloc(S, object) ==
    [S |-> [S EXCEPT !.heap = Append(@, object)], val |-> Ref(Len(S.heap) + 1)]

\* resolvedData[key] = x
SetProp(heap, id, key, x) == [heap EXCEPT ![id].v = (key :> x) @@ @]

\* delete extendedData[key]
DeleteProp(heap, id, key) ==
    [heap EXCEPT ![id].v = [k \in DOMAIN @ \ {key} |-> @[k]]]

\* response.json(): the cells of a parsed value, each recorded as an input
RECURSIVE Store(_, _)
RECURSIVE StoreProps(_, _, _, _)
StoreProps(S, x, keys, props) ==
    IF keys = {} THEN [S |-> S, props |-> props]
    ELSE LET key == CHOOSE k \in keys : TRUE
             r == Store(S, x.v[key])
         IN  StoreProps(r.S, x, keys \ {key}, props @@ (key :> r.val))

Store(S, x) ==
    IF ~IsObject(x) THEN [S |-> S, val |-> x]
    ELSE LET r == StoreProps(S, x, DOMAIN x.v, NoProps)
             object == [t |-> x.t, v |-> r.props]
             id == Len(r.S.heap) + 1
         IN  [S |-> [heap |-> Append(r.S.heap, object), snap |-> r.S.snap @@ (id :> object)],
              val |-> Ref(id)]

\* the value a reference stands for
RECURSIVE Deref(_, _)
Deref(heap, x) ==
    IF IsRef(x)
    THEN [t |-> heap[x.v].t,
          v |-> [k \in DOMAIN heap[x.v].v |-> Deref(heap, heap[x.v].v[k])]]
    ELSE x

\* [...data] or {...data}
Copy(S, data) ==
    Alloc(S, [t |-> S.heap[data.v].t, v |-> Spread(S.heap[data.v])])

\* mergeObjects, had it written the source properties into the target
targetItself(S, target) == [S |-> S, val |-> target]

\* DataDB.mergeObjects, lines 88-93: a new object with the target's properties
copyOfTarget(S, target) ==
    Alloc(S, [t |-> S.heap[target.v].t, v |-> S.heap[target.v].v])

RECURSIVE mergeObjectsOnHeap(_, _, _)
RECURSIVE mergeSource(_, _, _, _)
\* lines 96-105: the loop over the keys of the source
mergeSource(S, result, source, keys) ==
    IF keys = {} THEN [S |-> S, val |-> result]
    ELSE LET key == CHOOSE k \in keys : TRUE
             value == S.heap[source.v].v[key]
             own == S.heap[result.v].v
         IN  IF IsRef(value) /\ key \in DOMAIN own /\ IsRef(own[key])
             THEN LET m == mergeObjectsOnHeap(S, own[key], value) IN
                  mergeSource([m.S EXCEPT !.heap = SetProp(@, result.v, key, m.val)],
                              result, source, keys \ {key})
             ELSE mergeSource([S EXCEPT !.heap = SetProp(@, result.v, key, value)],
                              result, source, keys \ {key})

\* DataDB.mergeObjects
mergeObjectsOnHeap(S, target, source) ==
    IF ~IsRef(target) \/ ~IsRef(source) THEN [S |-> S, val |-> source]
    ELSE LET r == copyOfTarget(S, target) IN
         mergeSource(r.S, r.val, source, DOMAIN S.heap[source.v].v)

\* BrowserDB.loadDocument: the parsed body is made of new cells
loadDocumentOnHeap(S, uri, T) ==
    LET loaded == loadDocument(uri, Undefined, T) IN
    IF loaded.kind = "throw" THEN [kind |-> "throw", err |-> loaded.err, S |-> S]
    ELSE LET r == Store(S, loaded.value) IN
         [kind |-> "value", S |-> r.S, val |-> r.val]

\* DataDB.processExtensions
RECURSIVE processExtensionsOnHeap(_, _, _)
processExtensionsOnHeap(S, data, T) ==
    IF ~IsRef(data) THEN [S |-> S, val |-> data]
    ELSE LET extendedData == Copy(S, data)
             props == extendedData.S.heap[extendedData.val.v].v
         IN  IF "$extend" \in DOMAIN props /\ Truthy(props["$extend"])
             THEN LET parentData == loadDocumentOnHeap(extendedData.S, props["$extend"].v, T)
                  IN  IF parentData.kind = "throw" THEN extendedData
                      ELSE LET processedParentData ==
                                   processExtensionsOnHeap(parentData.S, parentData.val, T)
                               deleted ==
                                   [processedParentData.S EXCEPT
                                      !.heap = DeleteProp(@, extendedData.val.v, "$extend")]
                           IN  mergeObjectsOnHeap(deleted, processedParentData.val,
                                                  extendedData.val)
             ELSE extendedData

\* DataDB.mergeInheritedData, lines 67-70; inheritance gives each directory
\* the reference to its context
RECURSIVE mergeChainOnHeap(_, _, _, _, _)
mergeChainOnHeap(S, chain, i, mergedData, inheritance) ==
    IF i > Len(chain) THEN [S |-> S, val |-> mergedData]
    ELSE LET dir == chain[i]
             dirData == IF dir \in DOMAIN inheritance
                        THEN [S |-> S, val |-> inheritance[dir]]
                        ELSE Alloc(S, EmptyObject)
             merged == mergeObjectsOnHeap(dirData.S, mergedData, dirData.val)
         IN  mergeChainOnHeap(merged.S, chain, i + 1, merged.val, inheritance)

\* DataDB.mergeInheritedData
mergeInheritedDataOnHeap(S, path, data, inheritance) ==
    LET empty == Alloc(S, EmptyObject)
        mergedData == mergeChainOnHeap(empty.S, inheritanceChain(path), 1, empty.val,
                                       inheritance)
    IN  mergeObjectsOnHeap(mergedData.S, mergedData.val, data)

\* DataDB.resolveReferences
RECURSIVE resolveReferencesOnHeap(_, _, _)
RECURSIVE resolveEntries(_, _, _, _, _)
\* lines 123-136: the loop over Object.entries(resolvedData)
resolveEntries(S, resolvedData, entries, keys, T) ==
    IF keys = {} THEN [S |-> S, val |-> resolvedData]
    ELSE LET key == CHOOSE k \in keys : TRUE
             value == entries[key]
         IN  IF value.t = "str" /\ StartsWith(value.v, RefPrefix)
             THEN LET refValue == loadDocumentOnHeap(S, Slice(value.v, 5), T) IN
                  IF refValue.kind = "throw"
                  THEN resolveEntries([S EXCEPT !.heap = SetProp(@, resolvedData.v, key, value)],
                                      resolvedData, entries, keys \ {key}, T)
                  ELSE resolveEntries([refValue.S EXCEPT
                                         !.heap = SetProp(@, resolvedData.v, key, refValue.val)],
                                      resolvedData, entries, keys \ {key}, T)
             ELSE IF IsRef(value)
             THEN LET r == resolveReferencesOnHeap(S, value, T) IN
                  resolveEntries([r.S EXCEPT !.heap = SetProp(@, resolvedData.v, key, r.val)],
                                 resolvedData, entries, keys \ {key}, T)
             ELSE resolveEntries(S, resolvedData, entries, keys \ {key}, T)

resolveReferencesOnHeap(S, data, T) ==
    IF ~IsRef(data) THEN [S |-> S, val |-> data]
    ELSE LET resolvedData == Copy(S, data)
             entries == resolvedData.S.heap[resolvedData.val.v].v
         IN  resolveEntries(resolvedData.S, resolvedData.val, entries, DOMAIN entries, T)

\* db.inheritance = {...}: the contexts of the instance, in memory before the call
RECURSIVE StoreInheritance(_, _, _, _)
StoreInheritance(S, inheritance, dirs, refs) ==
    IF dirs = {} THEN [S |-> S, refs |-> refs]
    ELSE LET dir == CHOOSE d \in dirs : TRUE
             r == Store(S, inheritance[dir])
         IN  StoreInheritance(r.S, inheritance, dirs \ {dir}, refs @@ (dir :> r.val))

EmptyHeap == [heap |-> <<>>, snap |-> [id \in {} |-> EmptyObject]]

Settle(r) ==
    [kind |-> "value", value |-> Deref(r.S.heap, r.val), heap |-> r.S.heap, snap |-> r.S.snap]

\* DataDB.fetchMerged
fetchMergedOnHeap(uri, W) ==
    LET instance == StoreInheritance(EmptyHeap, W.inheritance, DOMAIN W.inheritance,
                                     [d \in {} |-> Null])
        loaded == loadDocumentOnHeap(instance.S, fullUri(uri), W.T)
    IN  IF loaded.kind = "throw"
        THEN [kind |-> "throw", err |-> loaded.err,
              heap |-> loaded.S.heap, snap |-> loaded.S.snap]
        ELSE LET extended == processExtensionsOnHeap(loaded.S, loaded.val, W.T)
                 inherited == mergeInheritedDataOnHeap(extended.S, uri, extended.val,
                                                       instance.refs)
             IN  Settle(resolveReferencesOnHeap(inherited.S, inherited.val, W.T))

\* a context with a nested object, under the key mergeInheritedData derives
NestedContext == Obj("a" :> Obj("x" :> Num(1) @@ "y" :> Num(1)) @@ "g" :> Num(1))

HeapCalls ==
    [op : {"mergeObjects"}, target : MergeOperands, source : MergeOperands]
    \cup [op : {"fetchMerged"}, uri : {PageUri},
          W : [T : ExtendTransports \cup PipeTransports,
               inheritance : PageInheritances \cup {PageRelDir :> NestedContext}]]

HeapInit ==
    /\ mcall \in HeapCalls
    /\ mresult = Pending
    /\ fcall = Pending
    /\ fresult = Pending
    /\ calls = [i \in Calls |-> IdleCall]
    /\ rcall = Pending
    /\ rresult = Pending
    /\ sresult = Pending
    /\ pipe = Pending
    /\ dcall = Pending
    /\ dresult = Pending
    /\ driver = Pending
    /\ gen = Pending

\* one call of mergeObjects(target, source) on two objects in memory
MergeObjectsOnHeap ==
    /\ mresult.kind = "pending"
    /\ mcall.op = "mergeObjects"
    /\ LET target == Store(EmptyHeap, mcall.target)
           source == Store(target.S, mcall.source)
       IN  mresult' = Settle(mergeObjectsOnHeap(source.S, target.val, source.val))
    /\ UNCHANGED <<fcall, fresult, mcall, calls, rcall, rresult, sresult, pipe, dcall, dresult, driver, gen>>

\* one call of fetchMerged(uri), run to its settlement
FetchMergedOnHeap ==
    /\ mresult.kind = "pending"
    /\ mcall.op = "fetchMerged"
    /\ mresult' = fetchMergedOnHeap(mcall.uri, mcall.W)
    /\ UNCHANGED <<fcall, fresult, mcall, calls, rcall, rresult, sresult, pipe, dcall, dresult, driver, gen>>

HeapNext == MergeObjectsOnHeap \/ FetchMergedOnHeap

HeapSpec == HeapInit /\ [][HeapNext]_vars

(***************************************************************************)
(* Properties of fetchRemote                                               *)
(***************************************************************************)
Settled == fresult.kind # "pending"

\* the outcome of the first transport call of the call under study
FirstOutcome == fcall.T[Href(fcall.uri)]

FallbackRan == Settled /\ Len(fresult.log) > 1

AllNotFound ==
    \A h \in FetchHrefs : fcall.T[h].kind = "resolve" /\ fcall.T[h].status = 404

\* C1: fetchRemote on an extensionless URI, against a transport that answers
\* 404 for the URI and for the URI with every configured extension, settles
\* after at most 1 + 6 transport calls with a non-ok response; called with an
\* empty visited set it makes exactly 7 calls and returns the response of the
\* last extension tried (.nano).
C1_NotFoundEverywhereTerminates ==
    (Settled /\ fcall.uri = DataUri /\ AllNotFound) =>
        /\ fresult.kind = "response"
        /\ ~fresult.response.ok
        /\ Len(fresult.log) <= 1 + Len(DATA_EXTNAMES)
        /\ (fcall.visited = {} =>
                /\ Len(fresult.log) = 1 + Len(DATA_EXTNAMES)
                /\ fresult.response.href = Href(DataUri \o DATA_EXTNAMES[Len(DATA_EXTNAMES)]))

C1_Witness ==
    /\ Settled /\ fcall.uri = DataUri /\ AllNotFound /\ fcall.visited = {}
    /\ fresult.kind = "response"
    /\ Len(fresult.log) = 7

\* the declared content type of a response, whatever the letter case of the
\* header name, and whether its subtype names a configured extension
HasDeclaredType(headers) == DOMAIN headers # {}
DeclaredType(headers) == headers[CHOOSE n \in DOMAIN headers : TRUE]
MatchesDataExt(ctype) ==
    \E i \in 1..Len(DATA_EXTNAMES) :
        DATA_EXTNAMES[i] = <<".">> \o Split(ctype, "/")[2]

\* C2: for an extensionless URI, extension fallback starts only if the
\* declared content type matches no configured extension, or the response is
\* a 404 whose href is not in visited; a 200 response declaring
\* application/json is returned after exactly one transport call.
C2_FallbackOnlyOnMismatchOrNotFound ==
    (FallbackRan /\ extname(fcall.uri) = <<>>) =>
        \/ /\ HasDeclaredType(FirstOutcome.headers)
           /\ ~MatchesDataExt(DeclaredType(FirstOutcome.headers))
        \/ /\ FirstOutcome.status = 404
           /\ Href(fcall.uri) \notin fcall.visited

\* C9: for an extensionless URI whose href is already in visited, the
\* response is returned without any further transport call, whatever its
\* status or content type.
C9_VisitedHrefNeverRetried ==
    (Settled /\ extname(fcall.uri) = <<>> /\ Href(fcall.uri) \in fcall.visited
        /\ FirstOutcome.kind = "resolve") =>
        /\ fresult.kind = "response"
        /\ fresult.log = <<Href(fcall.uri)>>
        /\ fresult.response = Response(Href(fcall.uri), FirstOutcome)

\* C10: when extension fallback runs, the URI is retried with the configured
\* extensions appended in declared order, every extension tried before the
\* last one answered with a non-ok response, and an ok answer of the last
\* one tried is what fetchRemote returns (the answer of .nano if none is ok).
C10_FallbackInOrderUntilFirstOk ==
    FallbackRan =>
        LET n == Len(fresult.log) IN
        /\ n <= 1 + Len(DATA_EXTNAMES)
        /\ fresult.log[1] = Href(fcall.uri)
        /\ \A j \in 2..n : fresult.log[j] = Href(fcall.uri \o DATA_EXTNAMES[j - 1])
        /\ \A j \in 2..(n - 1) :
              /\ fcall.T[fresult.log[j]].kind = "resolve"
              /\ ~IsOk(fcall.T[fresult.log[j]].status)
        /\ LET last == fcall.T[fresult.log[n]] IN
           /\ last.kind = "resolve" =>
                 /\ fresult.kind = "response"
                 /\ fresult.response = Response(fresult.log[n], last)
                 /\ (~IsOk(last.status) => n = 1 + Len(DATA_EXTNAMES))
           /\ last.kind = "reject" => fresult.kind = "throw"

C10_Witness ==
    /\ FallbackRan
    /\ Len(fresult.log) = 4
    /\ fresult.kind = "response"
    /\ fresult.response.ok
    /\ fresult.response.href = Href(fcall.uri \o DATA_EXTNAMES[3])

(***************************************************************************)
(* Properties of the merge engine                                          *)
(***************************************************************************)
MergeObjectsDone == mresult.kind = "value" /\ mcall.op = "mergeObjects"

FetchMergedDone == mresult.kind # "pending" /\ mcall.op = "fetchMerged"

\* the document served for doc.json in the world of the call under study
ServedDoc == mcall.W.T[Href(DocJsonUri)].body

\* C5: mergeObjects replaces rather than merges whenever either value at a
\* key is an array or a scalar: the result holds the source value alone at
\* that key ({a:[1,2]} merged with {a:[3]} is {a:[3]}).
C5_ArrayOrScalarIsReplaced ==
    MergeObjectsDone =>
        LET tv == mcall.target.v["a"]
            sv == mcall.source.v["a"]
        IN  (tv.t # "obj" \/ sv.t # "obj") => mresult.value.v["a"] = sv

\* C6: a string "$ref:<path>#<pointer>" is replaced by the value found by
\* loading <path> and following the pointer keys into it: with
\* ref.json = {v:42}, {k:"$ref:ref.json"} resolves to {k:{v:42}} and
\* {k:"$ref:ref.json#v"} resolves to {k:42}.
C6_RefFollowsPointer ==
    (FetchMergedDone /\ mcall.uri \in {DocUri, DocJsonUri}
        /\ mcall.W.T[Href(RefJsonUri)] = Served(RefDoc)) =>
        /\ mresult.kind = "value"
        /\ ServedDoc = Obj(Prop("k", RefToRef)) => mresult.value.v["k"] = RefDoc
        /\ ServedDoc = Obj(Prop("k", RefToPointer)) => mresult.value.v["k"] = Num(42)

\* C7: when the target of a $ref cannot be loaded, because the response is
\* not ok or because the transport call fails, fetchMerged does not reject
\* and the key keeps the original literal "$ref:..." string.
C7_UnresolvableRefKeptLiteral ==
    (FetchMergedDone /\ mcall.uri \in {DocUri, DocJsonUri}) =>
        /\ ServedDoc = Obj(Prop("k", RefToMissing)) =>
              /\ mresult.kind = "value"
              /\ mresult.value.v["k"] = RefToMissing
        /\ (ServedDoc = Obj(Prop("k", RefToRef))
               /\ mcall.W.T[Href(RefJsonUri)] \notin {Served(RefDoc), Served(RefWithRef)}) =>
              /\ mresult.kind = "value"
              /\ mresult.value.v["k"] = RefToRef

\* the context registered for a directory, {} if none
Registered(dir) ==
    IF dir \in DOMAIN mcall.W.inheritance THEN mcall.W.inheritance[dir].v ELSE NoProps

\* C8: fetchMerged('uk/index') merges the contexts registered for "/" and
\* "/uk/" beneath the document: "/uk/" overrides "/", the document overrides
\* both, and the document's own name is not treated as a directory.
C8_AncestorContextsMergedBeneathDocument ==
    (FetchMergedDone /\ mcall.uri = UkIndexUri) =>
        LET root == Registered(RootDir)
            uk == Registered(UkDir)
            doc == UkIndexDoc.v
        IN  /\ mresult.kind = "value"
            /\ mresult.value.t = "obj"
            /\ DOMAIN mresult.value.v = DOMAIN root \cup DOMAIN uk \cup DOMAIN doc
            /\ \A k \in DOMAIN mresult.value.v :
                  mresult.value.v[k] = IF k \in DOMAIN doc THEN doc[k]
                                       ELSE IF k \in DOMAIN uk THEN uk[k]
                                       ELSE root[k]

(***************************************************************************)
(* Properties of the deadline                                              *)
(***************************************************************************)
\* C3: if the transport has not settled when the timer fires, fetchRemote
\* rejects with an HTTPError of status 408, whether or not the transport
\* reacts to the abort signal.
C3_DeadlineRejectsWith408 ==
    \A i \in Calls :
        (calls[i].pc = "settled" /\ calls[i].timer = "fired") =>
            /\ calls[i].outcome.kind = "throw"
            /\ calls[i].outcome.err = HTTPError408

\* C11: when the transport rejects with an error that is not an abort caused
\* by the deadline (an AbortError raised after the timer aborted the signal),
\* fetchRemote rejects with that very error, not with an HTTPError.
C11_OtherErrorsPropagateUnchanged ==
    \A i \in Calls :
        ( /\ calls[i].pc = "settled"
          /\ calls[i].raised # NoError
          /\ ~(calls[i].raised.name = "AbortError" /\ calls[i].aborted) ) =>
            /\ calls[i].outcome.kind = "throw"
            /\ calls[i].outcome.err = calls[i].raised

\* C35: when the first response of the transport for the URI is ok,
\* fetchRemote returns an ok response: the extension loop does not replace
\* an ok first response by one that is not ok, nor by a rejection.
C35_OkFirstResponseStaysOk ==
    (Settled /\ FirstOutcome.kind = "resolve" /\ IsOk(FirstOutcome.status)) =>
        /\ fresult.kind = "response"
        /\ fresult.response.ok

\* C33: with two calls of fetchRemote in flight, the expiry of the deadline
\* of one call changes nothing of the other: neither its timer, nor its
\* signal, nor its outcome; a call whose own timer has not fired and whose
\* transport resolved returns the response of its transport.
C33_DeadlinesAreIndependent ==
    /\ [][\A i, j \in Calls :
            (i # j /\ calls[i].timer = "armed" /\ calls'[i].timer = "fired") =>
                calls'[j] = calls[j]]_vars
    /\ [](\A j \in Calls :
            (calls[j].pc = "settled" /\ calls[j].timer = "cleared"
                /\ calls[j].raised = NoError) =>
                (~calls[j].aborted /\ calls[j].outcome.kind = "response"))

C33_Witness ==
    /\ calls[1].timer = "fired" /\ calls[1].aborted
    /\ calls[1].outcome = [kind |-> "throw", err |-> HTTPError408]
    /\ calls[2].pc = "settled" /\ calls[2].timer = "cleared" /\ ~calls[2].aborted
    /\ calls[2].outcome = [kind |-> "response", status |-> 200]

\* the two overlapping calls are over
DuringOver ==
    \/ driver.stage = 3
    \/ driver.stage = 2 /\ \A k \in Callers : driver.callers[k].pc = "done"

\* what the overlapping call of the caller k settled with
DuringResult(k) ==
    IF driver.stage = 2 THEN driver.callers[k].result ELSE driver.past[2].results[k]

\* the two overlapping calls were op on uri and both were fulfilled
BothFulfilled(op, uri) ==
    /\ DuringOver
    /\ \A k \in Callers :
        /\ driver.scenario.during[k].op = op
        /\ driver.scenario.during[k].uri = uri
        /\ DuringResult(k) = Value(True)

\* the document of the put on uri that IndexedDB carried out last
LastPut(uri) ==
    LET on == {i \in DOMAIN driver.puts : driver.puts[i].uri = uri}
        last == CHOOSE i \in on : \A j \in on : j <= i IN
    driver.puts[last].document

\* the call made alone after the overlapping calls is over
AfterOver(op) ==
    /\ driver.stage = 3
    /\ driver.scenario.after.op = op
    /\ driver.callers[1].pc = "done"

\* C34: after two overlapping write(uri, ...) that were both fulfilled, the
\* entry of the cache and the stored value for uri are the same document,
\* that of the write carried out last, and a later read returns it.
C34_LastWriteWins ==
    \A uri \in DriverUris :
        BothFulfilled("write", uri) =>
            /\ driver.cache[uri] = driver.store[uri]
            /\ driver.store[uri] = LastPut(uri)
            /\ AfterOver("read") /\ driver.scenario.after.uri = uri =>
                   driver.callers[1].result = Value(LastPut(uri))

\* two overlapping writes of different documents, after a read that had
\* cached the absence of the document, and then a read
C34_Witness ==
    /\ BothFulfilled("write", NotesUri)
    /\ driver.scenario.during[1].arg # driver.scenario.during[2].arg
    /\ driver.scenario.before.op = "read"
    /\ AfterOver("read")
    /\ driver.callers[1].result = Value(driver.scenario.during[1].arg)

\* C39: append is atomic for a URI: after two overlapping append(uri, a)
\* and append(uri, b) that were both fulfilled the stored document is the
\* previous content followed by both chunks, in one order or the other.
C39_AppendLosesNoChunk ==
    \A uri \in DriverUris :
        BothFulfilled("append", uri) =>
            LET prev == driver.past[1].store[uri]
                a == driver.scenario.during[1].arg
                b == driver.scenario.during[2].arg IN
            driver.store[uri] \in {appended(appended(prev, a), b),
                                   appended(appended(prev, b), a)}

\* a write(uri, document) among the overlapping calls was fulfilled and its
\* document is what the store holds for uri
Written(uri, document) ==
    /\ DuringOver
    /\ \E k \in Callers :
        /\ driver.scenario.during[k] = [op |-> "write", uri |-> uri, arg |-> document]
        /\ DuringResult(k) = Value(True)
    /\ driver.store[uri] = document

\* C40: stat(uri) called after write(uri, document) returns the size of
\* document, also when a stat was called and cached before the write.
C40_StatAfterWrite ==
    \A document \in DriverDocs :
        (Written(NotesUri, document) /\ AfterOver("stat")) =>
            /\ driver.callers[1].result.kind = "value"
            /\ driver.callers[1].result.value.size = blobSize(document)

\* the same, for the scenarios where no stat was called before the write
\* was over
StatAfterWriteUncached ==
    \A document \in DriverDocs :
        (/\ Written(NotesUri, document)
         /\ AfterOver("stat")
         /\ driver.scenario.before.op # "stat"
         /\ \A k \in Callers : driver.scenario.during[k].op # "stat") =>
            /\ driver.callers[1].result.kind = "value"
            /\ driver.callers[1].result.value.size = blobSize(document)

\* a $ref string that names a document which refers back to itself,
\* directly or through another document
IsCyclicRef(x) ==
    /\ x.t = "str"
    /\ StartsWith(x.v, RefPrefix)
    /\ LET loaded == loadDocument(Slice(x.v, 5), Undefined, mcall.W.T) IN
       /\ loaded.kind = "value"
       /\ \E i \in DOMAIN refsIn(loaded.value) :
            LET back == loadDocument(refsIn(loaded.value)[i], Undefined, mcall.W.T) IN
            /\ back.kind = "value"
            /\ \/ refsIn(loaded.value)[i] = Slice(x.v, 5)
               \/ \E j \in DOMAIN refsIn(back.value) :
                    refsIn(back.value)[j] = Slice(x.v, 5)

\* the statements of the call still to run
StepsLeft(step) ==
    CASE step = "load" -> 6
      [] step = "extend" -> 5
      [] step = "inherit" -> 4
      [] step = "resolve" -> 3
      [] step = "resolving" -> 2
      [] step = "return" -> 1
      [] OTHER -> 0

\* within processExtensions the documents not yet loaded as a parent, within
\* resolveReferences the references still to load
WorkLeft ==
    CASE pipe.step = "extend" -> Cardinality(DOMAIN mcall.W.T) - Len(pipe.stack)
      [] pipe.step = "resolving" -> Len(pipe.refs)
      [] OTHER -> 0

\* more than the documents the transport serves, which is more than the
\* parents and the references a call has to load
Radix == Cardinality(DOMAIN mcall.W.T) + 1

\* a natural number that measures what the call has still to do
Variant == StepsLeft(pipe.step) * Radix + WorkLeft

\* C38: fetchMerged terminates on documents whose $extend chains end, also
\* when their $ref strings form cycles: every step of the call lowers a
\* natural number, so that no call takes steps for ever.
C38_TerminatesOnRefCycles ==
    /\ [][Variant' < Variant]_vars
    /\ [](WorkLeft \in 0..(Radix - 1))

\* the call has returned a document one of whose references was a cycle:
\* its target was loaded once and holds its own $ref string unresolved
C38_Witness ==
    /\ pipe.step = "returned"
    /\ mresult.kind = "value"
    /\ IsObject(mresult.value)
    /\ "r" \in DOMAIN mresult.value.v
    /\ IsObject(mresult.value.v["r"])
    /\ \E key \in DOMAIN mresult.value.v["r"].v : IsCyclicRef(mresult.value.v["r"].v[key])

\* the response of the index request of source was ok
IndexOk(source) ==
    LET r == fetchRemote(indexUriOf(gen.call.uri, source), {}, gen.call.T) IN
    r.kind = "response" /\ r.response.ok

\* the index of source was requested
Requested(source) == \E i \in DOMAIN gen.requests : gen.requests[i].step = source

\* every entry yielded so far came from source
YieldedOnlyFrom(source) == \A i \in DOMAIN gen.yielded : gen.yielded[i].source = source

\* C31: readDir requests the full index first and the shallow index second,
\* yields the entries of the first of them whose response is ok and then
\* requests nothing further, delegates to the base listing only when
\* neither index request gave an ok response, and never yields entries of
\* more than one source.
C31_OneSourceInOrder ==
    gen.pc # "start" =>
        /\ (Requested("shallow") \/ gen.delegated \/ gen.yielded # <<>>) => Requested("full")
        /\ gen.delegated => Requested("shallow")
        /\ \A i, j \in DOMAIN gen.requests :
              (gen.requests[i].step = "full" /\ gen.requests[j].step = "shallow") => i < j
        /\ IndexOk("full") =>
              ~Requested("shallow") /\ ~gen.delegated /\ YieldedOnlyFrom("full")
        /\ (~IndexOk("full") /\ IndexOk("shallow")) =>
              ~gen.delegated /\ YieldedOnlyFrom("shallow")
        /\ gen.delegated => ~IndexOk("full") /\ ~IndexOk("shallow")
        /\ \E source \in {"full", "shallow", "base"} : YieldedOnlyFrom(source)

\* the index of source loads: its response is ok and its body parses to an
\* array of entries
IndexLoads(source) ==
    LET r == fetchRemote(indexUriOf(gen.call.uri, source), {}, gen.call.T) IN
    /\ r.kind = "response" /\ r.response.ok
    /\ json(r.response).kind = "value"
    /\ Iterable(json(r.response).value)

\* the same with "loads" for "ok", for a consumer that never throws into the
\* generator
OneSourceWhenIndexLoads ==
    (gen.pc # "start" /\ ~gen.thrownInto) =>
        /\ (Requested("shallow") \/ gen.delegated \/ gen.yielded # <<>>) => Requested("full")
        /\ gen.delegated => Requested("shallow")
        /\ \A i, j \in DOMAIN gen.requests :
              (gen.requests[i].step = "full" /\ gen.requests[j].step = "shallow") => i < j
        /\ IndexLoads("full") =>
              ~Requested("shallow") /\ ~gen.delegated /\ YieldedOnlyFrom("full")
        /\ (~IndexLoads("full") /\ IndexLoads("shallow")) =>
              ~gen.delegated /\ YieldedOnlyFrom("shallow")
        /\ gen.delegated => ~IndexLoads("full") /\ ~IndexLoads("shallow")
        /\ \E source \in {"full", "shallow", "base"} : YieldedOnlyFrom(source)

\* a transport call made through fetchRemote
ThroughFetchRemote(i) == calls[i].timer # "unset"

\* the verbs that go through fetchRemote do settle
FetchRemoteCallsSettle ==
    \A i \in Calls :
        (calls[i].pc = "awaiting" /\ ThroughFetchRemote(i)) ~> (calls[i].pc = "settled")

\* C37: every transport call of a document verb is bounded by the timeout
\* of the instance: a verb that awaits its transport settles in the end,
\* even when the transport never answers of itself.
C37_NoVerbPendsForever ==
    \A i \in Calls : (calls[i].pc = "awaiting") ~> (calls[i].pc = "settled")

(***************************************************************************)
(* Properties of the resolver                                              *)
(***************************************************************************)
ResolveDone == rresult.kind # "pending"

LastArg == rcall.args[Len(rcall.args)]

\* C4: if the last segment is a remote URL whose origin differs from
\* context.cwd, resolve returns exactly that URL, whatever segments precede it.
C4_LastCrossOriginUrlWins ==
    (ResolveDone /\ Len(rcall.args) > 0 /\ LastArg \in {OtherUrl, SecondUrl}) =>
        rresult = Value(LastArg)

\* C12: resolve(ctx, s1, ..., sn) equals resolve(ctx, sk, ..., sn) where sk is
\* the right-most segment that starts with "/": the segments before sk have
\* no influence on the result.
C12_RightMostAbsoluteWins ==
    [][ResolveFromAbsolute => rresult' = rresult]_vars

\* C13: a result that is a same-origin path (it starts with "/") resolves to
\* itself in the same context.
C13_ResolveIsIdempotent ==
    [][ResolveAgain => rresult' = rresult]_vars

(***************************************************************************)
(* Properties of $extend                                                   *)
(***************************************************************************)
ExtendCall == mcall.op = "fetchMerged" /\ mcall.uri = PageUri

PageDoc == mcall.W.T[Href(PageJsonUri)].body
BaseOutcome == mcall.W.T[Href(BaseUri)]
TopOutcome == mcall.W.T[Href(TopUri)]

Loads(outcome) == outcome.kind = "resolve" /\ IsOk(outcome.status)

\* result holds every key of parent and of doc, and the value of doc wherever
\* doc defines one, key by key through the plain objects both define
RECURSIVE DocWins(_, _, _)
DocWins(parent, doc, result) ==
    IF parent.t = "obj" /\ doc.t = "obj"
    THEN /\ IsObject(result)
         /\ \A k \in (DOMAIN parent.v \cup DOMAIN doc.v) \ {"$extend"} :
               /\ k \in DOMAIN result.v
               /\ k \in DOMAIN doc.v =>
                     IF k \in DOMAIN parent.v
                     THEN DocWins(parent.v[k], doc.v[k], result.v[k])
                     ELSE result.v[k] = doc.v[k]
    ELSE result = doc

\* C19: when a document declares $extend and the parent loads, the result
\* holds every key of the parent and of the document, and the document's own
\* value wherever both define one, at any depth of plain objects.
C19_ExtendMergesBeneathDocument ==
    (FetchMergedDone /\ ExtendCall /\ Loads(BaseOutcome)) =>
        /\ mresult.kind = "value"
        /\ DocWins(BaseOutcome.body, PageDoc, mresult.value)

\* the parent and, when the parent names one, its own parent load
ChainLoads ==
    /\ Loads(BaseOutcome)
    /\ "$extend" \in DOMAIN BaseOutcome.body.v => Loads(TopOutcome)

NestedRefsDoc ==
    Obj("k" :> Num(1) @@ "n" :> Obj(Prop("m", RefToRef))
            @@ "l" :> Arr(<<RefToPointer, Num(2)>>))

RefTarget == mcall.W.T[Href(RefJsonUri)]

\* C24: reference resolution replaces every $ref string, at every depth of
\* nested objects and arrays, by the loaded target as it was loaded: a $ref
\* string inside the target stays a literal string; other values are kept.
C24_EveryRefResolvedOnce ==
    (FetchMergedDone /\ mcall.uri \in {DocUri, DocJsonUri} /\ Loads(RefTarget)) =>
        /\ mresult.kind = "value"
        /\ ServedDoc = Obj(Prop("k", RefToRef)) => mresult.value.v["k"] = RefTarget.body
        /\ ServedDoc = NestedRefsDoc =>
              /\ mresult.value.v["k"] = Num(1)
              /\ mresult.value.v["n"] = Obj(Prop("m", RefTarget.body))
              /\ mresult.value.v["l"].t = "arr"
              /\ mresult.value.v["l"].v["1"] = Num(2)
              /\ Loads(mcall.W.T[Href(RefJsonVUri)]) =>
                    mresult.value.v["l"].v["0"] = RefTarget.body

C24_Witness ==
    /\ FetchMergedDone /\ mcall.uri = DocUri
    /\ ServedDoc = NestedRefsDoc
    /\ RefTarget = Served(RefWithRef)
    /\ mresult.kind = "value"
    /\ mresult.value.v["n"].v["m"].v["v"] = RefToMissing

(***************************************************************************)
(* The order of the steps of fetchMerged                                   *)
(***************************************************************************)
PipeSettled == mresult.kind # "pending"

\* the step-by-step run and the function fetchMerged settle alike
PipeAgreesWithFetchMerged == PipeSettled => mresult = fetchMerged(mcall.uri, mcall.W)

ParentHrefs == {Href(BaseUri), Href(TopUri)}
StepRank(step) ==
    CASE step = "load" -> 1 [] step = "extend" -> 2
      [] step = "inherit" -> 3 [] step = "resolve" -> 4

\* the parents of the $extend chain of the served page whose load is attempted
ChainHrefs ==
    LET page == mcall.W.T[Href(PageJsonUri)].body
        base == mcall.W.T[Href(BaseUri)]
    IN  IF "$extend" \notin DOMAIN page.v THEN {}
        ELSE IF Loads(base) /\ "$extend" \in DOMAIN base.body.v THEN ParentHrefs
        ELSE {Href(BaseUri)}

\* C25: the steps of fetchMerged run in the order load, extend resolution,
\* inheritance composition, reference resolution: the document is requested
\* first, every request of the run is made in that order of steps, and when the
\* inheritance contexts are merged every parent of the $extend chain has been
\* requested, while no parent is requested after the merge or after a request
\* for a $ref target.
C25_StepsRunInOrder ==
    LET log == pipe.log IN
    (mcall.op = "fetchMerged" /\ pipe # Pending) =>
        /\ log # <<>> => log[1] = [step |-> "load", href |-> Href(fullUri(mcall.uri))]
        /\ \A i, j \in 1..Len(log) :
              i < j => StepRank(log[i].step) <= StepRank(log[j].step)
        /\ \A i, j \in 1..Len(log) :
              (/\ log[i].href \in ParentHrefs
               /\ log[j].step = "inherit" \/ log[j].href = Href(RefJsonUri)) => i < j
        /\ \A j \in 1..Len(log) :
              (log[j].step = "inherit" /\ mcall.uri # YamlUri) =>
                  ChainHrefs \subseteq {log[i].href : i \in 1..(j - 1)}

C25_Witness ==
    /\ pipe # Pending /\ pipe.step = "returned"
    /\ Len(pipe.log) = 5
    /\ pipe.log[2].href = Href(BaseUri)
    /\ pipe.log[3].href = Href(TopUri)
    /\ pipe.log[4].step = "inherit"
    /\ pipe.log[5] = [step |-> "resolve", href |-> Href(RefJsonUri)]

HasDataExtname(uri) == \E i \in 1..Len(DATA_EXTNAMES) : EndsWith(uri, DATA_EXTNAMES[i])

\* C26: fetchMerged requests the URI unchanged when it ends in one of the
\* document extensions .json, .jsonl, .csv, .yaml, .yml, .nano, and with the
\* default extension appended otherwise.
C26_RecognizedExtensionKept ==
    (mcall.op = "fetchMerged" /\ pipe # Pending /\ pipe.log # <<>>) =>
        pipe.log[1].href =
            Href(IF HasDataExtname(mcall.uri) THEN mcall.uri ELSE mcall.uri \o extension)

(***************************************************************************)
(* The document operations                                                 *)
(***************************************************************************)
DocDone == dresult.kind # "pending"

WriteOps == {"saveDocument", "writeDocument", "dropDocument"}

\* the last response the transport gave to the operation, if it gave one
HasFinalResponse ==
    IF dcall.op = "saveDocument" THEN fetchFn(dcall.T, dcall.uri).kind = "resolve"
    ELSE fetchRemote(dcall.uri, {}, dcall.T).kind = "response"

FinalResponse ==
    IF dcall.op = "saveDocument" THEN Response(dcall.uri, fetchFn(dcall.T, dcall.uri))
    ELSE fetchRemote(dcall.uri, {}, dcall.T).response

FailedWrite == DocDone /\ dcall.op \in WriteOps /\ HasFinalResponse /\ ~FinalResponse.ok

\* C27: saveDocument, writeDocument and dropDocument reject with an HTTPError
\* that carries the status of the response whenever the last response of the
\* transport is not ok.
C27_FailedWriteRejectsWithStatus ==
    FailedWrite =>
        /\ dresult.kind = "throw"
        /\ dresult.err.name = "HTTPError"
        /\ dresult.err.status = FinalResponse.status

C27_Witness ==
    /\ FailedWrite
    /\ dcall.op = "dropDocument" /\ dcall.uri = DataUri
    /\ FinalResponse.status = 404
    /\ dresult.kind = "throw"
    /\ dresult.err.status = 404

DefaultMessage ==
    FailedMessage(CASE dcall.op = "saveDocument" -> FailedToSave
                    [] dcall.op = "writeDocument" -> FailedToWrite
                    [] dcall.op = "dropDocument" -> FailedToDelete, dcall.uri)

\* the text of the body {"code":1}
CodeBodyText == <<"{", "\"", "c", "o", "d", "e", "\"", ":", "1", "}">>

\* C28: the message of the HTTPError of a failed write is the error field of
\* a JSON body, else its message field, else the raw text of the response,
\* else the default message of the operation; a JSON object with neither
\* field gives the raw text or the default message.
C28_MessageOrder ==
    (FailedWrite /\ dresult.kind = "throw" /\ dresult.err.name = "HTTPError") =>
        LET body == FinalResponse.body IN
        CASE body.t = "obj" /\ "error" \in DOMAIN body.v ->
                dresult.err.message = body.v["error"].v
          [] body.t = "obj" /\ "error" \notin DOMAIN body.v /\ "message" \in DOMAIN body.v ->
                dresult.err.message = body.v["message"].v
          [] body.t = "obj" /\ DOMAIN body.v \cap {"error", "message"} = {} ->
                dresult.err.message \in {CodeBodyText, DefaultMessage}
          [] body.t = "text" -> dresult.err.message = body.v
          [] OTHER -> dresult.err.message = DefaultMessage

\* C29: loadDocument resolves to the parsed body of an ok response and to
\* defaultValue when the response is not ok or the transport fails; it does
\* not reject.
C29_LoadFallsBackToDefault ==
    (DocDone /\ dcall.op = "loadDocument") =>
        LET out == fetchFn(dcall.T, Href(dcall.uri)) IN
        IF out.kind = "resolve" /\ IsOk(out.status)
        THEN dresult = Value(out.body)
        ELSE dresult = Value(dcall.defaultValue)

\* the hrefs the PUT or the DELETE of the operation was sent to, in order
WriteRequests == fetchRemote(dcall.uri, {}, dcall.T).log

\* C36: writeDocument and dropDocument send their PUT or DELETE to the href
\* of the URI they were given and to no other href, whatever the response.
C36_WriteGoesToGivenHrefOnly ==
    (DocDone /\ dcall.op \in {"writeDocument", "dropDocument"}) =>
        \A i \in 1..Len(WriteRequests) : WriteRequests[i] = Href(dcall.uri)

\* C32: ensureAccess rejects with a TypeError exactly when the level is not
\* one of r, w, d; every document verb awaits the check with one of these
\* levels before it calls the transport, so no transport call has been made
\* while the check is pending, and none is made when the check rejects.
C32_AccessCheckedBeforeTransport ==
    /\ (dcall # Pending /\ dcall.op = "ensureAccess" /\ dresult.kind = "settled") =>
          (dresult.result = Throws("TypeError") <=> dcall.level \notin {"r", "w", "d"})
    /\ (dcall # Pending /\ dcall.op = "verb") =>
          /\ verbLevel(dcall.call.op) \in {"r", "w", "d"}
          /\ dresult.kind \in {"pending", "checked"} => dresult = Pending \/ dresult.requests = 0
          /\ (dresult.kind = "settled" /\ dcall.guard = "readonly"
                /\ dcall.call.op # "loadDocument") =>
                  (dresult.requests = 0 /\ dresult.result.kind = "throw")
          /\ (dresult.kind = "settled" /\ dresult.requests > 0) =>
                instanceEnsureAccess(dcall.guard, dcall.call.uri,
                                     verbLevel(dcall.call.op)).kind = "value"

C32_Witness ==
    /\ dcall # Pending /\ dcall.op = "verb" /\ dcall.guard = "readonly"
    /\ dcall.call.op = "dropDocument"
    /\ dresult.kind = "settled" /\ dresult.requests = 0

HeaderNamed(headers, names) ==
    IF DOMAIN headers \cap names = {} THEN <<>>
    ELSE headers[CHOOSE n \in DOMAIN headers \cap names : TRUE]

\* C30: statDocument gives a stat that is not a file for a 404; for another
\* response it gives a file whose size is the Content-Length header, 0 without
\* one, and whose mtimeMs is the time of Last-Modified, else of Date, else 0,
\* whatever the letter case of the header names.
C30_StatFromHeaders ==
    (DocDone /\ dcall.op = "statDocument"
        /\ fetchFn(dcall.T, Href(dcall.uri)).kind = "resolve") =>
        LET out == fetchFn(dcall.T, Href(dcall.uri))
            length == HeaderNamed(out.headers, {"Content-Length", "content-length"})
            modified == HeaderNamed(out.headers,
                                    {"Last-Modified", "last-modified", "LAST-MODIFIED"})
            date == HeaderNamed(out.headers, {"Date", "date"})
        IN  /\ dresult.kind = "value"
            /\ IF out.status = 404 THEN ~dresult.value.isFile
               ELSE /\ dresult.value.isFile
                    /\ dresult.value.size = (IF length = Length123 THEN 123 ELSE 0)
                    /\ dresult.value.mtimeMs =
                         (IF modified = Oct2015 THEN 1445412480
                          ELSE IF date = Nov2015 THEN 1448090880 ELSE 0)

(***************************************************************************)
(* The inputs of the merge pipeline                                        *)
(***************************************************************************)
HeapDone == mresult.kind # "pending"

\* the run on the heap and the functions on values give the same value
HeapAgreesWithValues ==
    (HeapDone /\ mresult.kind = "value") =>
        mresult.value = IF mcall.op = "mergeObjects"
                        THEN mergeObjects(mcall.target, mcall.source)
                        ELSE fetchMerged(mcall.uri, mcall.W).value

\* C23: no operation of the merge pipeline modifies its inputs: when the call
\* has returned, every cell of every loaded document, of every parent document
\* and of every entry of the inheritance map is what it was when it was loaded
\* or, for the inheritance map and the operands of mergeObjects, before the call.
C23_InputsNotModified ==
    HeapDone => \A id \in DOMAIN mresult.snap : mresult.heap[id] = mresult.snap[id]

C23_Witness ==
    /\ HeapDone /\ mcall.op = "fetchMerged" /\ mresult.kind = "value"
    /\ mcall.W.inheritance = (PageRelDir :> NestedContext)
    /\ Loads(mcall.W.T[Href(BaseUri)])
    /\ "a" \in DOMAIN mcall.W.T[Href(PageJsonUri)].body.v
    /\ Len(mresult.heap) > Cardinality(DOMAIN mresult.snap) + 3
    /\ mresult.value.v["g"] = Num(1)

\* the context registered for the root directory, if any
RootContext ==
    IF RootDir \in DOMAIN mcall.W.inheritance THEN mcall.W.inheritance[RootDir]
    ELSE Obj(NoProps)

C22_MergePrecedence ==
    (FetchMergedDone /\ ExtendCall /\ Loads(BaseOutcome)
        /\ "$extend" \notin DOMAIN BaseOutcome.body.v) =>
        /\ mresult.kind = "value"
        /\ IsObject(mresult.value)
        /\ \A k \in {"lang", "title", "g"} :
              LET expected ==
                    IF k \in DOMAIN PageDoc.v THEN PageDoc.v[k]
                    ELSE IF k \in DOMAIN BaseOutcome.body.v THEN BaseOutcome.body.v[k]
                    ELSE IF k \in DOMAIN RootContext.v THEN RootContext.v[k]
                    ELSE Undefined
              IN  IF expected = Undefined THEN TRUE
                  ELSE k \in DOMAIN mresult.value.v /\ mresult.value.v[k] = expected

(***************************************************************************)
(* Properties of the resolver, continued                                   *)
(***************************************************************************)
ValidArgs == FilterNullish(rcall.args)

\* the first segment is a URL of the origin of context.cwd
SameOriginFirst ==
    /\ ValidArgs # <<>>
    /\ isRemote(ValidArgs[1])
    /\ ParseUrl(ValidArgs[1]).origin = ParseUrl(rcall.context.cwd).origin

\* every segment is relative, but for a same-origin URL in first place
AllRelative ==
    /\ ValidArgs # <<>>
    /\ \A i \in 1..Len(ValidArgs) :
          \/ i = 1 /\ SameOriginFirst
          \/ ~StartsWith(ValidArgs[i], <<"/">>) /\ ~isRemote(ValidArgs[i])

EffectiveRoot ==
    IF SameOriginFirst THEN ParseUrl(ValidArgs[1]).pathname ELSE rcall.context.root

\* C14: when all segments are relative, the resolved path begins
\* with the effective root (context.root, or the path of a same-origin URL
\* given as first segment).
C14_RelativeStaysBelowRoot ==
    (ResolveDone /\ AllRelative) =>
        /\ rresult.kind = "value"
        /\ StartsWith(rresult.value, EffectiveRoot)

\* the last segment that is neither null nor empty
LastNonEmpty ==
    LET nonEmpty == SelectSeq(ValidArgs, LAMBDA arg : arg # <<>>) IN
    nonEmpty[Len(nonEmpty)]

\* C15: the query string and the fragment of the result are exactly those of
\* the last non-empty segment; a "?" or "#" of an earlier segment contributes
\* nothing.
C15_QueryAndFragmentOfLastSegment ==
    (ResolveDone /\ rresult.kind = "value" /\ \E i \in 1..Len(ValidArgs) : ValidArgs[i] # <<>>) =>
        /\ UrlSearch(UrlParts(rresult.value)) = UrlSearch(UrlParts(LastNonEmpty))
        /\ UrlHash(UrlParts(rresult.value)) = UrlHash(UrlParts(LastNonEmpty))

\* C16: with no segment, or when dropping null and undefined leaves nothing
\* or a single empty string, resolve returns context.root and does not throw.
C16_NothingToResolveGivesRoot ==
    (ResolveDone /\ (ValidArgs = <<>> \/ ValidArgs = << <<>> >>)) =>
        rresult = Value(rcall.context.root)

\* C17: the string-based fallback returns what the URL-based resolver returns
\* for the same context and segments.
C17_FallbackAgreesWithResolver ==
    (ResolveDone /\ sresult.kind # "pending") => sresult = rresult

\* C18: a result is either a path that begins with "/" and carries no scheme
\* and no host, or a full URL whose origin differs from that of context.cwd.
C18_SameOriginResultOmitsOrigin ==
    (ResolveDone /\ rresult.kind = "value") =>
        \/ /\ StartsWith(rresult.value, <<"/">>)
           /\ ~StartsWith(rresult.value, <<"/", "/">>)
        \/ /\ isRemote(rresult.value)
           /\ ParseUrl(rresult.value).origin # ParseUrl(rcall.context.cwd).origin

C18_Witness ==
    /\ ResolveDone
    /\ rcall.args = <<SameOriginUrl, <<"a">>>>
    /\ rresult = Value(<<"/", "a", "p", "i", "/", "a">>)

Init == FetchInit

Next == FetchRemote

Spec == Init /\ [][Next]_vars

====
